---- MODULE Spec2Model ----
(***************************************************************************)
(* Identity resolution of the Sonic-Brief backend: bearer token -> user.   *)
(*                                                                         *)
(* The model follows backend_app/app/routers/auth.py (the resolvers        *)
(* get_current_user_any, get_current_user_cached, get_current_user_entra,  *)
(* register_user and the lock-protected get_or_create_entra_user),         *)
(* app/core/config.py (CosmosDB user operations), app/core/dependencies.py *)
(* (AuthenticationCache), app/services/entra_auth.py (JWKS cache and       *)
(* verify_token) and app/services/cached_user_service.py.                  *)
(*                                                                         *)
(* Granularity.  Request handlers are asyncio coroutines.  Code between    *)
(* two awaits runs without interruption; every awaited user-store call is  *)
(* a suspension point.  One action of the model is therefore: consume the  *)
(* result of the awaited call the task was suspended in, run the           *)
(* synchronous code that follows (including the store calls the code makes *)
(* without awaiting: create_item, replace_item) and take the next awaited  *)
(* store call, whose result the task picks up in its next action.          *)
(*                                                                         *)
(* Tasks.  A task of the model is one request in flight.  Requests of one  *)
(* worker interleave at the awaits; the deployment also runs several       *)
(* gunicorn workers (gunicorn.conf.py), whose requests interleave at every *)
(* store call.  The tasks share one set of in-process caches and one lock  *)
(* registry, i.e. they are requests of one worker; the store is shared by  *)
(* all.  The Entra service exists from the start with the key set its      *)
(* constructor fetched at StartTime.  The horizon MaxTime - StartTime is   *)
(* shorter than 80% of the user-cache TTL, so under Tick user-cache        *)
(* entries neither expire nor start a background refresh; SpecRefresh      *)
(* advances the time by RefreshTickStep and covers both.                   *)
(*                                                                         *)
(* Faults.  A user-store call may raise; at most MaxFaults calls do.       *)
(*                                                                         *)
(* Python values: None and "" are both modelled by "" for strings, a       *)
(* missing or empty list by <<>>, a missing record by None.                *)
(***************************************************************************)
EXTENDS Naturals, Integers, Sequences, FiniteSets, TLC

(***************************************************************************)
(* Bounds of the model                                                     *)
(***************************************************************************)
MaxTasks == 2
MaxRequests == 3
MaxFaults == 1
StartTime == 3600
TickStep == 150
MaxTime == 3900
RefreshTickStep == 250
RefreshMaxTime == 4600
TtlTickStep == 300
TtlMaxTime == 4500
\* max_cache_size of the user cache, 2000 in the source
MaxCacheSize == 1

(***************************************************************************)
(* Program constants                                                       *)
(***************************************************************************)
AuthCacheTtl == 300
JwksCacheTtl == 3600
LockCleanupDelay == 5
UserCacheTtl == 900
\* background_refresh_threshold = 0.8, in tenths
RefreshThresholdTenths == 8

Tasks == 1..MaxTasks

None == [none |-> TRUE]

(***************************************************************************)
(* str.lower().strip() on the e-mail strings of the model                  *)
(***************************************************************************)
Lower(s) ==
    CASE s = "Ann@x.org" -> "ann@x.org"
      [] s = " Ann@x.org " -> " ann@x.org "
      [] OTHER -> s

Strip(s) ==
    CASE s = " Ann@x.org " -> "Ann@x.org"
      [] s = " ann@x.org " -> "ann@x.org"
      [] OTHER -> s

LowerStrip(s) == Strip(Lower(s))

(***************************************************************************)
(* User records of the auth container                                      *)
(***************************************************************************)
\* last_login is the time get_current_user_entra has persisted (auth.py lines
\* 291-300), 0 for the value the record has had since it was created
UserRec(id, email, oid, roles, role, method, atype) ==
    [id |-> id, email |-> email, entra_oid |-> oid, roles |-> roles,
     role |-> role, auth_method |-> method, auth_type |-> atype,
     last_login |-> 0]

\* f"user_{timestamp}" with timestamp = int(now * 1000)
UserIdAt(t) == <<"user_", t * 1000>>

LegacyAnn(roles, role) ==
    UserRec(<<"user_", 1>>, "ann@x.org", "", roles, role, "legacy", "")

LegacyBob ==
    UserRec(<<"user_", 3>>, "bob@x.org", "", <<"standard">>, "standard", "legacy", "")

EntraAnn(roles) ==
    UserRec(<<"user_", 2>>, "ann@x.org", "o1", roles, "standard", "entra", "entra")

\* the record of a person whose e-mail address has changed since
RenamedAnn ==
    UserRec(<<"user_", 2>>, "bob@x.org", "o1", <<"editor">>, "standard", "entra",
            "entra")

(***************************************************************************)
(* Bearer tokens.  hdr is the JOSE header as jwt.get_unverified_header     *)
(* sees it ("malformed", "nokid" or the kid); fail is what the RS256       *)
(* decode under the matching public key reports ("" when every check       *)
(* passes); hs256 says whether the token validates under the shared        *)
(* secret, and sub is the subject of that legacy payload.                  *)
(***************************************************************************)
NoClaims ==
    [oid |-> "", preferred_username |-> "", email |-> "", upn |-> "",
     unique_name |-> "", has_roles |-> FALSE, roles |-> <<>>,
     appid |-> "", azp |-> "", appidacr |-> "", scp |-> ""]

Tok(raw, hdr, fail, claims, hs256, sub) ==
    [raw |-> raw, hdr |-> hdr, fail |-> fail, claims |-> claims,
     hs256 |-> hs256, sub |-> sub]

TUser ==
    Tok("tUser", "k1", "",
        [NoClaims EXCEPT !.oid = "o1", !.preferred_username = "Ann@x.org",
                         !.scp = "access_as_user"],
        FALSE, "")

TAdmin ==
    Tok("tAdmin", "k1", "",
        [NoClaims EXCEPT !.oid = "o1", !.email = "ann@x.org",
                         !.has_roles = TRUE, !.roles = <<"admin">>,
                         !.scp = "access_as_user"],
        FALSE, "")

TOther ==
    Tok("tOther", "k1", "",
        [NoClaims EXCEPT !.oid = "o2", !.upn = "ann@x.org",
                         !.has_roles = TRUE, !.scp = "access_as_user"],
        FALSE, "")

TRotated ==
    Tok("tRotated", "k2", "",
        [NoClaims EXCEPT !.oid = "o1", !.preferred_username = "ann@x.org"],
        FALSE, "")

TExpired ==
    Tok("tExpired", "k1", "ExpiredSignatureError",
        [NoClaims EXCEPT !.oid = "o1", !.preferred_username = "ann@x.org"],
        FALSE, "")

TApp ==
    Tok("tApp", "k1", "",
        [NoClaims EXCEPT !.appid = "app1", !.appidacr = "1",
                         !.has_roles = TRUE, !.roles = <<"svc">>],
        FALSE, "")

\* the subject of TUser under another user name
TRenamed ==
    Tok("tRenamed", "k1", "",
        [NoClaims EXCEPT !.oid = "o1", !.preferred_username = "bob@x.org",
                         !.scp = "access_as_user"],
        FALSE, "")

\* a second person
TBob ==
    Tok("tBob", "k1", "",
        [NoClaims EXCEPT !.oid = "o2", !.preferred_username = "bob@x.org",
                         !.scp = "access_as_user"],
        FALSE, "")

TLocal == Tok("tLocal", "nokid", "", NoClaims, TRUE, "ann@x.org")

TLocalBob == Tok("tLocalBob", "nokid", "", NoClaims, TRUE, "bob@x.org")

TGarbage == Tok("tGarbage", "malformed", "", NoClaims, FALSE, "")

\* well-signed remote tokens with every combination of the claims the
\* resolvers classify by: subject, e-mail, application id, appidacr, scp, roles
ClassTokens ==
    { Tok("tc-" \o oid \o "-" \o pu \o "-" \o appid \o "-" \o acr \o "-" \o scp
              \o "-" \o (IF roles = <<>> THEN "" ELSE roles[1]),
          "k1", "",
          [NoClaims EXCEPT !.oid = oid, !.preferred_username = pu,
                           !.appid = appid, !.appidacr = acr, !.scp = scp,
                           !.has_roles = roles # <<>>, !.roles = roles],
          FALSE, "") :
        oid \in {"", "o1"}, pu \in {"", "ann@x.org"}, appid \in {"", "app1"},
        acr \in {"", "1"}, scp \in {"", "access_as_user"},
        roles \in {<<>>, <<"svc">>} }

AllTokens ==
    {TUser, TAdmin, TOther, TRotated, TExpired, TApp, TLocal, TLocalBob, TGarbage,
     TRenamed, TBob}
        \cup ClassTokens

\* hashlib.sha256(token.encode()).hexdigest()
generate_token_hash(tok) == <<"sha256", tok.raw>>

\* the exp claim of a short-lived token
TokenExp == StartTime + TickStep

\* jwt.decode with verify_exp: the token string tok presented at time cur
AtTime(tok, cur) ==
    IF cur >= TokenExp /\ tok.fail = ""
    THEN [tok EXCEPT !.fail = "ExpiredSignatureError"]
    ELSE tok

TokenHashes == {generate_token_hash(tok) : tok \in AllTokens}

\* payload.get("preferred_username") or payload.get("email") or ...
EmailClaim(c) ==
    IF c.preferred_username # "" THEN c.preferred_username
    ELSE IF c.email # "" THEN c.email
    ELSE IF c.upn # "" THEN c.upn
    ELSE c.unique_name

(***************************************************************************)
(* The remote key provider and the JWKS cache of the Entra service         *)
(***************************************************************************)
ProviderStates ==
    { [up |-> FALSE, kids |-> {}],
      [up |-> TRUE, kids |-> {"k1"}],
      [up |-> TRUE, kids |-> {"k1", "k2"}] }

\* self.jwks_cache = {} ; self.jwks_cache_timestamp = 0
EmptyJwks == [loaded |-> FALSE, kids |-> {}, ts |-> 0]

\* variant: a failed fetch drops the cached set
FetchJwksDropsStale(j, cur, prov) ==
    IF j.loaded /\ cur - j.ts < JwksCacheTtl
    THEN [raise |-> 0, j |-> j, gets |-> 0]
    ELSE IF prov.up
    THEN [raise |-> 0,
          j |-> [loaded |-> TRUE, kids |-> prov.kids, ts |-> cur],
          gets |-> 1]
    ELSE [raise |-> 503, j |-> [loaded |-> FALSE, kids |-> {}, ts |-> 0],
          gets |-> 1]

\* _fetch_jwks_with_cache at time cur: the value returned or the status
\* raised, the cache afterwards and the number of HTTP GETs issued
FetchJwksWithCache(j, cur, prov) ==
    IF j.loaded /\ cur - j.ts < JwksCacheTtl
    THEN [raise |-> 0, j |-> j, gets |-> 0]
    ELSE IF prov.up
    THEN [raise |-> 0,
          j |-> [loaded |-> TRUE, kids |-> prov.kids, ts |-> cur],
          gets |-> 1]
    ELSE IF j.loaded
    THEN [raise |-> 0, j |-> j, gets |-> 1]
    ELSE [raise |-> 503, j |-> j, gets |-> 1]

Raised(cls, status, j, gets, forced) ==
    [exc |-> cls, status |-> status, j |-> j, gets |-> gets, forced |-> forced]

\* jwt.decode(token, public_key, algorithms=["RS256"], audience, issuer, ...)
DecodeRs256(tok, j, gets, forced) ==
    IF tok.fail # ""
    THEN Raised(tok.fail, 0, j, gets, forced)
    ELSE Raised("", 200, j, gets, forced)

\* the try block of verify_token (entra_auth.py lines 104-165)
VerifyTokenBody(tok, j, cur, prov) ==
    IF tok.hdr = "malformed" THEN Raised("PyJWTError", 0, j, 0, 0)
    ELSE IF tok.hdr = "nokid" THEN Raised("HTTPException", 401, j, 0, 0)
    ELSE LET f1 == FetchJwksWithCache(j, cur, prov) IN
         IF f1.raise # 0 THEN Raised("HTTPException", f1.raise, f1.j, f1.gets, 0)
         ELSE IF tok.hdr \in f1.j.kids THEN DecodeRs256(tok, f1.j, f1.gets, 0)
         ELSE LET f2 == FetchJwksWithCache([f1.j EXCEPT !.ts = 0], cur, prov) IN
              IF f2.raise # 0
              THEN Raised("HTTPException", f2.raise, f2.j, f1.gets + f2.gets, 1)
              ELSE IF tok.hdr \in f2.j.kids
              THEN DecodeRs256(tok, f2.j, f1.gets + f2.gets, 1)
              ELSE Raised("HTTPException", 401, f2.j, f1.gets + f2.gets, 1)

\* the except clauses of verify_token (lines 166-195): the status of the
\* HTTPException that leaves verify_token, 200 when the payload is returned
VerifyTokenStatus(exc) ==
    CASE exc = "" -> 200
      [] exc = "ExpiredSignatureError" -> 401
      [] exc = "InvalidAudienceError" -> 401
      [] exc = "InvalidIssuerError" -> 401
      [] exc = "PyJWTError" -> 401
      [] OTHER -> 500

verify_token(tok, j, cur, prov) ==
    LET b == VerifyTokenBody(tok, j, cur, prov) IN
    [status |-> VerifyTokenStatus(b.exc), raised |-> b.status, exc |-> b.exc,
     j |-> b.j, gets |-> b.gets, forced |-> b.forced]

(***************************************************************************)
(* State                                                                   *)
(***************************************************************************)
VARIABLES
    now,         \* time.time(), in seconds
    authMethod,  \* AUTH_METHOD: "legacy", "entra" or "both"
    provider,    \* what the JWKS endpoint answers
    jwks,        \* jwks_cache and jwks_cache_timestamp of the Entra service
    store,       \* the user documents of the auth container
    authCache,   \* AuthenticationCache._cache: token hash -> entry
    userCache,   \* AzureCachedUserService.user_cache, as its entry objects
    registry,    \* _user_creation_locks: identifier -> lock object
    held,        \* the lock objects that are locked
    cleanups,    \* the sleeping cleanup_user_lock_delayed tasks
    task,        \* the request tasks
    refreshes,   \* the _background_refresh_user tasks created and not finished
    faults,      \* store calls that have raised so far
    started      \* requests started so far

vars ==
    <<now, authMethod, provider, jwks, store, authCache, userCache, registry,
      held, cleanups, task, refreshes, faults, started>>

NoEntry == [absent |-> TRUE]

NoCall == [kind |-> "none", arg |-> ""]

NoRet == [ok |-> TRUE, val |-> None]

\* the endpoint a request is for, when the model follows it past the
\* resolver it depends on
NoEndpoint == [op |-> "", identifier |-> "", lookup_type |-> ""]

IdleTask ==
    [pc |-> "idle", entry |-> "", req |-> 0, tok |-> None,
     oid |-> "", email |-> "", roles |-> <<>>, user |-> None, ret |-> NoRet,
     ident |-> "", lock |-> 0, t0 |-> 0,
     status |-> 0, result |-> None,
     endpoint |-> NoEndpoint, served |-> 0,
     \* history of the request, read by the properties only
     ops |-> 0, outage |-> FALSE, hit |-> FALSE, verifies |-> 0,
     forced |-> 0, vstatus |-> 0, inserted |-> 0, read |-> None, via |-> "",
     local |-> 0, gets |-> 0, vraised |-> 0, errors |-> 0, stored |-> {}, audit |-> FALSE]

\* AuthConfig.is_legacy_enabled / is_entra_enabled
is_legacy_enabled(m) == m \in {"legacy", "both"}

is_entra_enabled(m) == m \in {"entra", "both"}

(***************************************************************************)
(* CosmosDB user operations on the documents d                             *)
(***************************************************************************)
\* get_user_by_email: results[0] of the query, None when there is no match;
\* the query states no order, so any match can be the first
get_user_by_email(d, email) ==
    LET m == {u \in d : u.email = (IF email # "" THEN LowerStrip(email) ELSE email)}
    IN  IF m = {} THEN {None} ELSE m

get_user_by_entra_oid(d, oid) ==
    LET m == {u \in d : u.entra_oid = oid}
    IN  IF m = {} THEN {None} ELSE m

\* update_user(user_id, {"last_login": ...}) (config.py lines 448-459): the
\* document is read, the field is set and the document is replaced
update_last_login(d, id, cur) ==
    {IF x.id = id THEN [x EXCEPT !.last_login = cur] ELSE x : x \in d}

\* auth_container.upsert_item / replace_item: the document with that id
\* is replaced
upsert_item(d, u) == {x \in d : x.id # u.id} \cup {u}

\* auth_container.create_item raises a conflict on an existing id
\* create_item: a document without id (<<>>) or with an id in use is rejected
create_item_conflict(d, u) == u.id = <<>> \/ \E x \in d : x.id = u.id

(***************************************************************************)
(* AuthenticationCache                                                     *)
(***************************************************************************)
\* get: the cached user_data while time.time() - timestamp < ttl, else None
\* variant: the age test of get is inverted
AuthCacheGetInverted(c, h, cur) ==
    IF c[h] # NoEntry /\ cur - c[h].timestamp > AuthCacheTtl
    THEN c[h].user_data
    ELSE None

AuthCacheGet(c, h, cur) ==
    IF c[h] # NoEntry /\ cur - c[h].timestamp < AuthCacheTtl
    THEN c[h].user_data
    ELSE None

\* get deletes an expired entry
AuthCacheAfterGet(c, h, cur) ==
    IF c[h] # NoEntry /\ ~(cur - c[h].timestamp < AuthCacheTtl)
    THEN [c EXCEPT ![h] = NoEntry]
    ELSE c

AuthCacheSet(c, h, user, cur) ==
    [c EXCEPT ![h] = [user_data |-> user, timestamp |-> cur]]

(***************************************************************************)
(* AzureCachedUserService.user_cache.  An entry object is {data, timestamp, *)
(* ttl}; cache_user stores ONE entry object under several keys and every   *)
(* lookup hands out the data dict of the entry itself, so the cache is     *)
(* kept as the set of its entry objects, each with the keys that point to  *)
(* it.  ttl is default_ttl in every call the program makes.                *)
(***************************************************************************)
\* _get_cache_key: the lookup type and the first 16 hex digits of a SHA-256
CacheKey(lookup_type, value) == <<lookup_type, value>>

UcHas(uc, k) == \E e \in uc : k \in e.keys

UcEntry(uc, k) == CHOOSE e \in uc : k \in e.keys

\* variant: an entry is still valid when its age equals the TTL
UcHitAtTtl(uc, k, cur) ==
    UcHas(uc, k) /\ cur - UcEntry(uc, k).timestamp <= UserCacheTtl

\* variant: an entry that holds no record is not served
UcHitRecordsOnly(uc, k, cur) ==
    /\ UcHas(uc, k) /\ cur - UcEntry(uc, k).timestamp < UserCacheTtl
    /\ UcEntry(uc, k).data # None

\* cache_key in self.user_cache and _is_cache_valid(cache_entry)
UcHit(uc, k, cur) == UcHas(uc, k) /\ cur - UcEntry(uc, k).timestamp < UserCacheTtl

\* _should_background_refresh: age > ttl * background_refresh_threshold
should_background_refresh(e, cur) ==
    (cur - e.timestamp) * 10 > UserCacheTtl * RefreshThresholdTenths

\* del self.user_cache[k] for every k in ks
UcWithout(uc, ks) ==
    {e \in {[x EXCEPT !.keys = @ \ ks] : x \in uc} : e.keys # {}}

\* self.user_cache[k] = entry for every k in ks, entry a new object
UcPut(uc, ks, data, ts) ==
    IF ks = {} THEN uc
    ELSE UcWithout(uc, ks) \cup {[keys |-> ks, data |-> data, timestamp |-> ts]}

\* the caller assigns into the dict it got under key k
UcMutate(uc, k, data) ==
    {IF k \in e.keys THEN [e EXCEPT !.data = data] ELSE e : e \in uc}

\* get_user_by_email line 163: the key a lookup of email reads and fills
GetUserByEmailKey(email) == CacheKey("email", Lower(email))

\* invalidate_user_cache(identifier, lookup_type)
invalidate_user_cache(uc, identifier, lookup_type) ==
    UcWithout(uc, {CacheKey(lookup_type, identifier)})

\* cache_user: one entry under the keys the record has a value for
CacheUserKeys(u) ==
    {CacheKey("user_id", u.id)}
        \cup (IF u.email # "" THEN {CacheKey("email", Lower(u.email))} ELSE {})
        \cup (IF u.entra_oid # "" THEN {CacheKey("entra_oid", u.entra_oid)} ELSE {})

\* variant: cache_user leaves out the key by e-mail
CacheUserNoEmailKey(uc, u, cur) ==
    IF u = None THEN uc
    ELSE UcPut(uc, CacheUserKeys(u) \ {CacheKey("email", Lower(u.email))}, u, cur)

cache_user(uc, u, cur) == IF u = None THEN uc ELSE UcPut(uc, CacheUserKeys(u), u, cur)

\* asyncio.create_task(self._background_refresh_user(lookup_type, identifier,
\* cache_key)): a new task that has not run yet
NewRefresh(rs, lookup_type, identifier, k) ==
    [n |-> IF rs = {} THEN 1
           ELSE 1 + (CHOOSE m \in {r.n : r \in rs} : \A r \in rs : r.n <= m),
     lookup_type |-> lookup_type, identifier |-> identifier, key |-> k,
     pc |-> "scheduled", ret |-> NoRet]

\* the cache-hit branch of get_user_by_entra_oid / get_user_by_email
\* (lines 121-137, 167-181): the entry under k is valid and its data is
\* returned; a refresh task is created when the entry is old enough
UcServed(S, lookup_type, identifier, k) ==
    IF should_background_refresh(UcEntry(S.userCache, k), S.now)
    THEN [S EXCEPT !.refreshes =
                @ \cup {NewRefresh(@, lookup_type, identifier, k)}]
    ELSE S

\* variant: the refresh writes its entry whether or not the key is still there
BackgroundRefreshApplyAlways(uc, r, cur) ==
    IF r.ret.ok THEN UcPut(uc, {r.key}, r.ret.val, cur) ELSE uc

\* _background_refresh_user lines 409-416: the fetched value replaces the
\* entry under the key, with a new timestamp, only if the key is still there;
\* lines 418-419: an exception of the fetch is logged
BackgroundRefreshApply(uc, r, cur) ==
    IF r.ret.ok /\ UcHas(uc, r.key)
    THEN UcPut(uc, {r.key}, r.ret.val, cur)
    ELSE uc

(***************************************************************************)
(* The synchronous code of a request works on a record S that holds the    *)
(* process state, the task's own record (me) and the awaited call the      *)
(* code stops at (call).                                                   *)
(***************************************************************************)
\* the request ends; its local variables die with the coroutine
Done(S, status, result) ==
    [S EXCEPT !.me.pc = "done", !.me.status = status, !.me.result = result,
              !.me.oid = "", !.me.email = "", !.me.roles = <<>>,
              !.me.user = None, !.me.ident = "", !.me.lock = 0, !.me.t0 = 0,
              !.call = NoCall]

Await(S, pc, kind, arg) ==
    [S EXCEPT !.me.pc = pc, !.call = [kind |-> kind, arg |-> arg]]

\* a user-store call made without await inside the step
SyncCall(S, flt) ==
    [S EXCEPT !.me.ops = @ + 1,
              !.faults = IF flt THEN @ + 1 ELSE @,
              !.me.outage = @ \/ flt]

(***************************************************************************)
(* get_current_user_any (auth.py lines 866-1012)                           *)
(***************************************************************************)
\* the synthetic identity of an application token (lines 916-924)
AppIdentity(app_id, roles) ==
    UserRec(<<"app_", app_id>>, "", "", roles, "", "", "entra_app")

\* is_app_only (lines 910-913)
is_app_only(c, roles) ==
    LET app_id == IF c.appid # "" THEN c.appid ELSE c.azp
    IN  app_id # "" /\ (c.appidacr = "1" \/ (Len(roles) > 0 /\ c.scp = ""))

\* lines 935-948: attach the subject, merge the roles
MergeFoundAny(user, oid, roles) ==
    [user EXCEPT !.entra_oid = oid,
                 !.roles = IF Len(roles) > 0 THEN roles
                           ELSE IF Len(user.roles) = 0 THEN <<"standard">>
                           ELSE user.roles]

\* lines 978-991: the legacy attempt up to its awaited lookup
LegacyAny(S) ==
    LET S1 == [S EXCEPT !.me.local = @ + 1]
    IN  IF ~is_legacy_enabled(S.cfg) THEN Done(S, 401, None)
        ELSE IF ~S.me.tok.hs256 THEN Done(S1, 401, None)
        ELSE IF S.me.tok.sub = "" THEN Done(S1, 401, None)
        ELSE Await(S1, "any_legacy", "get_email", S.me.tok.sub)

\* lines 970-976: the except clause of the Entra attempt
EntraFailedAny(S) ==
    IF ~is_legacy_enabled(S.cfg) THEN Done(S, 401, None) ELSE LegacyAny(S)

\* lines 879-932: from the call to the first awaited lookup
AnyBegin(S) ==
    LET tok == S.me.tok
        h == generate_token_hash(tok)
        cached == AuthCacheGet(S.authCache, h, S.now)
        S1 == [S EXCEPT !.authCache = AuthCacheAfterGet(@, h, S.now)]
        v == verify_token(tok, S.jwks, S.now, S.prov)
        S2 == [S1 EXCEPT !.jwks = v.j, !.me.verifies = @ + 1,
                         !.me.forced = v.forced, !.me.vstatus = v.status,
                         !.me.gets = v.gets,
                         !.me.vraised = v.raised,
                         !.me.outage = @ \/ (v.raised = 503)]
        c == tok.claims
        email == EmailClaim(c)
        app_id == IF c.appid # "" THEN c.appid ELSE c.azp
        app == AppIdentity(app_id, c.roles)
    IN  IF cached # None
        THEN Done([S EXCEPT !.me.hit = TRUE,
                            !.me.stored = {u \in S.store : u.id = cached.id}],
                  200, cached)
        ELSE IF ~is_entra_enabled(S.cfg) THEN LegacyAny(S1)
        ELSE IF v.status # 200 THEN EntraFailedAny(S2)
        ELSE IF email = "" \/ c.oid = ""
        THEN IF is_app_only(c, c.roles)
             THEN Done([S2 EXCEPT !.authCache = AuthCacheSet(@, h, app, S.now)],
                       200, app)
             ELSE EntraFailedAny(S2)
        ELSE Await([S2 EXCEPT !.me.oid = c.oid, !.me.email = email,
                              !.me.roles = c.roles],
                   "any_oid", "get_oid", c.oid)

\* variant: the found record is cached and returned without update_user
AnyFoundNoWriteBack(S, user, via) ==
    LET u == [MergeFoundAny(user, S.me.oid, S.me.roles) EXCEPT !.auth_type = "entra"]
        h == generate_token_hash(S.me.tok)
    IN  Done([S EXCEPT !.authCache = AuthCacheSet(@, h, u, S.now),
                       !.me.read = user, !.me.via = via],
             200, u)

\* lines 933-950: a record was found
AnyFound(S, user, via) ==
    LET merged == MergeFoundAny(user, S.me.oid, S.me.roles)
    IN  Await([S EXCEPT !.me.user = merged, !.me.read = user, !.me.via = via],
              "any_upd", "update", merged)

\* variant: auth_cache.set is not skipped when update_user raised
AnyUpdatedCachesFailure(S) ==
    LET u == [S.me.user EXCEPT !.auth_type = "entra"]
        h == generate_token_hash(S.me.tok)
        S1 == [S EXCEPT !.authCache = AuthCacheSet(@, h, u, S.now)]
    IN  IF ~S.me.ret.ok THEN EntraFailedAny(S1)
        ELSE Done([S1 EXCEPT !.me.user = u], 200, u)

\* lines 951-955: after update_user
AnyUpdated(S) ==
    IF ~S.me.ret.ok THEN EntraFailedAny(S)
    ELSE LET u == [S.me.user EXCEPT !.auth_type = "entra"]
             h == generate_token_hash(S.me.tok)
         IN  Done([S EXCEPT !.authCache = AuthCacheSet(@, h, u, S.now),
                            !.me.user = u],
                  200, u)

\* lines 965-969: get_or_create_entra_user returned user_data
AnyCreated(S, user_data) ==
    LET u == [user_data EXCEPT !.auth_type = "entra"]
        h == generate_token_hash(S.me.tok)
    IN  Done([S EXCEPT !.authCache = AuthCacheSet(@, h, u, S.now), !.me.user = u],
             200, u)

\* variant: the legacy attempt creates the record it did not find
AnyLegacyLookedAutoCreate(S) ==
    LET h == generate_token_hash(S.me.tok)
        made == UserRec(UserIdAt(S.now), S.me.tok.sub, "", <<"standard">>,
                        "standard", "legacy", "legacy")
    IN  IF ~S.me.ret.ok THEN Done(S, 401, None)
        ELSE IF S.me.ret.val = None
        THEN Done([S EXCEPT !.store = @ \cup {made},
                            !.authCache = AuthCacheSet(@, h, made, S.now)],
                  200, made)
        ELSE LET u == [S.me.ret.val EXCEPT !.auth_type = "legacy"]
             IN  Done([S EXCEPT !.authCache = AuthCacheSet(@, h, u, S.now),
                                !.me.read = S.me.ret.val, !.me.via = "legacy"],
                      200, u)

\* lines 991-1012: after the lookup of the legacy attempt
AnyLegacyLooked(S) ==
    IF ~S.me.ret.ok \/ S.me.ret.val = None THEN Done(S, 401, None)
    ELSE LET u == [S.me.ret.val EXCEPT !.auth_type = "legacy"]
             h == generate_token_hash(S.me.tok)
         IN  Done([S EXCEPT !.authCache = AuthCacheSet(@, h, u, S.now),
                            !.me.user = u, !.me.read = S.me.ret.val,
                            !.me.via = "legacy"],
                  200, u)

(***************************************************************************)
(* Lookups through AzureCachedUserService (cached_user_service.py lines    *)
(* 115-204).  A valid entry is a hit and no store call is made; otherwise  *)
(* the store is queried and the task is suspended in that query.           *)
(***************************************************************************)
\* variant: a store error is cached as a record that does not exist
UcFilledCachesError(S, k) ==
    IF S.me.ret.ok
    THEN [S EXCEPT !.userCache = UcPut(@, {k}, S.me.ret.val, S.me.t0)]
    ELSE [S EXCEPT !.userCache = UcPut(@, {k}, None, S.me.t0),
                   !.me.errors = @ + 1]

\* lines 143-159: the query returned; its result, None included, is cached
\* under k with the time the lookup began; a store error caches nothing and
\* is counted in cache_stats["errors"] (errors is the request's share of it)
UcFilled(S, k) ==
    IF S.me.ret.ok
    THEN [S EXCEPT !.userCache = UcPut(@, {k}, S.me.ret.val, S.me.t0)]
    ELSE [S EXCEPT !.me.errors = @ + 1]

\* what the lookup returns after its query: a store error is turned into None
UcFetched(S) == IF S.me.ret.ok THEN S.me.ret.val ELSE None

(***************************************************************************)
(* get_current_user_cached, the legacy attempt (auth.py lines 821-861)     *)
(***************************************************************************)
\* lines 838-854: the record the cached lookup gave; the caller writes into
\* the dict, which is the cache's own
LegacyCachedLooked(S, user, k) ==
    IF user = None THEN Done(S, 401, None)
    ELSE LET role == IF user.role = "" THEN "standard" ELSE user.role
             u == [user EXCEPT !.auth_type = "legacy", !.role = role,
                               !.roles = <<role>>]
         IN  Done([S EXCEPT !.userCache = UcMutate(@, k, u), !.me.read = user,
                            !.me.via = "legacy"],
                  200, u)

\* lines 822-837: the legacy attempt up to its lookup
LegacyCached(S) ==
    LET sub == S.me.tok.sub
        k == CacheKey("email", Lower(sub))
        S1 == [S EXCEPT !.me.local = @ + 1]
    IN  IF ~S.me.tok.hs256 \/ sub = "" THEN Done(S1, 401, None)
        ELSE IF UcHit(S.userCache, k, S.now)
        THEN LegacyCachedLooked(UcServed(S1, "email", sub, k),
                                UcEntry(S.userCache, k).data, k)
        ELSE Await([S1 EXCEPT !.me.t0 = S.now], "cached_legacy", "get_email", sub)

CachedLegacyFetched(S) ==
    LET k == CacheKey("email", Lower(S.me.tok.sub))
    IN  LegacyCachedLooked(UcFilled(S, k), UcFetched(S), k)

(***************************************************************************)
(* get_or_create_entra_user (auth.py lines 93-181) and CosmosDB.create_user *)
(* (config.py lines 331-370), which register_user calls as well            *)
(***************************************************************************)
\* line 100
LockIdentifier(email, oid) == IF oid # "" THEN oid ELSE LowerStrip(email)

\* variant: the call ends without releasing the lock it holds
GocLeaveKeepsLock(S, ok, user, aliased) ==
    LET S1 == [S EXCEPT !.cleanups = @ \cup {[ident |-> S.me.ident,
                                              due |-> S.now + LockCleanupDelay,
                                              req |-> S.me.req]}]
        u == [user EXCEPT !.auth_type = "entra"]
    IN  CASE S.me.entry = "any" ->
                IF ok THEN AnyCreated(S1, user) ELSE EntraFailedAny(S1)
          [] S.me.entry = "cached" ->
                IF ok
                THEN Done([S1 EXCEPT !.userCache =
                              IF aliased
                              THEN UcMutate(@, CacheKey("user_id", user.id), u)
                              ELSE @],
                          200, u)
                ELSE LegacyCached(S1)
          [] OTHER -> IF ok THEN Done(S1, 200, user) ELSE Done(S1, 401, None)

\* variant: the call ends without scheduling cleanup_user_lock_delayed
GocLeaveNoCleanup(S, ok, user, aliased) ==
    LET S1 == [S EXCEPT !.held = @ \ {S.me.lock}]
        u == [user EXCEPT !.auth_type = "entra"]
    IN  CASE S.me.entry = "any" ->
                IF ok THEN AnyCreated(S1, user) ELSE EntraFailedAny(S1)
          [] S.me.entry = "cached" ->
                IF ok
                THEN Done([S1 EXCEPT !.userCache =
                              IF aliased
                              THEN UcMutate(@, CacheKey("user_id", user.id), u)
                              ELSE @],
                          200, u)
                ELSE LegacyCached(S1)
          [] OTHER -> IF ok THEN Done(S1, 200, user) ELSE Done(S1, 401, None)

\* lines 171-176: the lock is released on leaving the async with block, the
\* finally clause schedules cleanup_user_lock_delayed, and the caller goes
\* on: lines 965-976 of get_current_user_any, 803-819 of
\* get_current_user_cached, 341-344 of get_current_user_entra.  aliased
\* says that the dict returned is the one handed to cache_user.
GocLeave(S, ok, user, aliased) ==
    LET S1 == [S EXCEPT !.held = @ \ {S.me.lock},
                        !.cleanups = @ \cup {[ident |-> S.me.ident,
                                              due |-> S.now + LockCleanupDelay,
                                              req |-> S.me.req]}]
        u == [user EXCEPT !.auth_type = "entra"]
    IN  CASE S.me.entry = "any" ->
                IF ok THEN AnyCreated(S1, user) ELSE EntraFailedAny(S1)
          [] S.me.entry = "cached" ->
                IF ok
                THEN Done([S1 EXCEPT !.userCache =
                              IF aliased
                              THEN UcMutate(@, CacheKey("user_id", user.id), u)
                              ELSE @],
                          200, u)
                ELSE LegacyCached(S1)
          [] OTHER -> IF ok THEN Done(S1, 200, user) ELSE Done(S1, 401, None)

\* lines 106-110: async with user_lock, then the first lookup
GocAcquire(S) ==
    IF S.me.lock \in S.held
    THEN [S EXCEPT !.me.pc = "goc_wait", !.call = NoCall]
    ELSE Await([S EXCEPT !.held = @ \cup {S.me.lock}],
               "goc_email", "get_email", S.me.email)

\* lines 100-103 with get_or_create_user_lock (lines 29-34)
GocEnter(S) ==
    LET id == LockIdentifier(S.me.email, S.me.oid)
        lk == IF S.registry[id] # 0 THEN S.registry[id] ELSE S.fresh
    IN  GocAcquire([S EXCEPT !.registry[id] = lk, !.me.ident = id,
                             !.me.lock = lk])

\* variant: the record built has the default roles whatever the token says
GocBuildDefaultRoles(S) ==
    LET user_data ==
            UserRec(UserIdAt(S.now), LowerStrip(S.me.email), S.me.oid,
                    <<"standard">>, "standard", "entra", "entra")
        S1 == [S EXCEPT !.me.user = user_data]
    IN  IF user_data.email # ""
        THEN Await(S1, "cu_email", "get_email", user_data.email)
        ELSE Await(S1, "cu_oid", "get_oid", user_data.entra_oid)

\* lines 136-150 and create_user lines 333-343
GocBuild(S) ==
    LET roles == S.me.roles
        user_data ==
            UserRec(UserIdAt(S.now), LowerStrip(S.me.email), S.me.oid,
                    IF Len(roles) > 0 THEN roles ELSE <<"standard">>,
                    IF Len(roles) > 0 THEN roles[1] ELSE "standard",
                    "entra", "entra")
        S1 == [S EXCEPT !.me.user = user_data]
    IN  IF user_data.email # ""
        THEN Await(S1, "cu_email", "get_email", user_data.email)
        ELSE Await(S1, "cu_oid", "get_oid", user_data.entra_oid)

\* lines 110-133 after the lookup by e-mail inside the lock
GocEmailLooked(S, flt) ==
    LET r == S.me.ret
        ex == r.val
        migrate == ex.entra_oid = "" /\ S.me.oid # ""
        ex2 == [ex EXCEPT !.entra_oid = S.me.oid, !.auth_method = "entra"]
        S1 == SyncCall(S, flt)
    IN  IF ~r.ok THEN GocLeave(S, FALSE, None, FALSE)
        ELSE IF ex # None
        THEN IF migrate
             THEN IF flt THEN GocLeave(S1, FALSE, None, FALSE)
                  ELSE GocLeave([S1 EXCEPT !.store = upsert_item(@, ex2),
                                            !.me.via = "lock"],
                                TRUE, ex2, FALSE)
             ELSE GocLeave([S EXCEPT !.me.via = "lock"], TRUE, ex, FALSE)
        ELSE IF S.me.oid # ""
        THEN Await(S, "goc_oid", "get_oid", S.me.oid)
        ELSE GocBuild(S)

\* variant: the record the lookup by entra_oid found is ignored
GocOidLookedIgnored(S, flt) ==
    IF ~S.me.ret.ok THEN GocLeave(S, FALSE, None, FALSE) ELSE GocBuild(S)

\* lines 124-135 after the lookup by entra_oid inside the lock
GocOidLooked(S, flt) ==
    LET r == S.me.ret
        ex == r.val
        fix == Lower(ex.email) # Lower(S.me.email)
        ex2 == [ex EXCEPT !.email = LowerStrip(S.me.email)]
        S1 == SyncCall(S, flt)
    IN  IF ~r.ok THEN GocLeave(S, FALSE, None, FALSE)
        ELSE IF ex # None
        THEN IF fix
             THEN IF flt THEN GocLeave(S1, FALSE, None, FALSE)
                  ELSE GocLeave([S1 EXCEPT !.store = upsert_item(@, ex2),
                                            !.me.via = "lock"],
                                TRUE, ex2, FALSE)
             ELSE GocLeave([S EXCEPT !.me.via = "lock"], TRUE, ex, FALSE)
        ELSE GocBuild(S)

\* lines 160-163: create_user raised
GocCreateFailed(S) == Await(S, "goc_retry", "get_email", S.me.email)

\* lines 156-159: create_user returned; the record is handed to cache_user of
\* the service the caller passed in, which get_current_user_any builds anew
\* for the call and throws away (lines 960-964)
GocCreated(S, user) ==
    IF S.me.entry = "any" THEN GocLeave(S, TRUE, user, FALSE)
    ELSE GocLeave([S EXCEPT !.userCache = cache_user(@, user, S.now)],
                  TRUE, user, TRUE)

(***************************************************************************)
(* get_me, GET /me (auth.py lines 526-704)                                 *)
(***************************************************************************)
\* variant: a token without roles leaves the roles of the record in place
MeFinishKeepsStored(S, user, k) ==
    LET u == [user EXCEPT !.auth_type = "entra", !.entra_oid = S.me.oid,
                          !.roles = IF Len(S.me.roles) > 0 THEN S.me.roles ELSE @]
    IN  Done([S EXCEPT !.userCache = IF k = <<>> THEN @ ELSE UcMutate(@, k, u)],
             200, u)

\* lines 641-670: the profile takes auth_type, entra_oid and the roles of the
\* token; k is the cache key whose dict user is, <<>> when it is a new dict.
\* With audit_login and no last_login, or one older than 12 hours, the LOGIN
\* audit is written and last_login set; update_user(id, fields) does not fit
\* UserManagementService.update_user(user_data) and its TypeError is dropped
MeFinish(S, user, k) ==
    LET u1 == [user EXCEPT !.auth_type = "entra", !.entra_oid = S.me.oid,
                           !.roles = S.me.roles]
        u == IF S.me.audit /\ (u1.last_login = 0 \/ S.now - u1.last_login >= 43200)
             THEN [u1 EXCEPT !.last_login = S.now]
             ELSE u1
    IN  Done([S EXCEPT !.userCache = IF k = <<>> THEN @ ELSE UcMutate(@, k, u)],
             200, u)

\* lines 608-619: new_user, the temporary profile
MeNewUser(S) ==
    UserRec(<<>>, S.me.email, S.me.oid, <<"standard">>, "standard", "", "entra")

\* lines 625-631: create_user returned a record
MeCreated(S, created_user) ==
    LET role == IF created_user.role = "" THEN "standard" ELSE created_user.role
    IN  MeFinish([S EXCEPT !.me.read = created_user, !.me.via = "create"],
                 [created_user EXCEPT !.auth_type = "entra",
                                      !.entra_oid = S.me.oid,
                                      !.roles = <<role>>],
                 <<>>)

\* lines 632-638: create_user raised
MeCreateFailed(S) == MeFinish([S EXCEPT !.me.via = "temp"], MeNewUser(S), <<>>)

\* lines 598-624: no record; UserManagementService.create_user (lines 29-43)
\* completes {email, name, role} and calls CosmosDB.create_user with a
\* document that has no id
MeAfterEmail(S, user, k) ==
    LET user_data ==
            UserRec(<<>>, LowerStrip(S.me.email), "", <<"standard">>, "standard",
                    "legacy", "")
    IN  IF user # None
        THEN MeFinish([S EXCEPT !.me.read = user, !.me.via = "email"], user, k)
        ELSE Await([S EXCEPT !.me.user = user_data],
                   "cu_email", "get_email", user_data.email)

\* line 596
MeLookupEmail(S) ==
    LET k == GetUserByEmailKey(S.me.email)
    IN  IF UcHit(S.userCache, k, S.now)
        THEN MeAfterEmail(UcServed(S, "email", S.me.email, k),
                          UcEntry(S.userCache, k).data, k)
        ELSE Await([S EXCEPT !.me.t0 = S.now], "me_email", "get_email",
                   S.me.email)

\* lines 594-596 once the lookup by entra_oid has answered
MeAfterOid(S, user, k) ==
    IF user # None
    THEN MeFinish([S EXCEPT !.me.read = user, !.me.via = "oid"], user, k)
    ELSE MeLookupEmail(S)

\* lines 684-702: the record the legacy lookup gave
MeLegacyLooked(S, user, k) ==
    IF user = None THEN Done(S, 401, None)
    ELSE LET role == IF user.role = "" THEN "standard" ELSE user.role
             u == [user EXCEPT !.auth_type = "legacy", !.role = role,
                               !.roles = <<role>>]
         IN  Done([S EXCEPT !.userCache = UcMutate(@, k, u), !.me.read = user,
                            !.me.via = "legacy"],
                  200, u)

\* lines 675-684: the legacy attempt up to its lookup
MeLegacy(S) ==
    LET sub == S.me.tok.sub
        k == GetUserByEmailKey(sub)
        S1 == [S EXCEPT !.me.local = @ + 1]
    IN  IF ~S.me.tok.hs256 \/ sub = "" THEN Done(S1, 401, None)
        ELSE IF UcHit(S.userCache, k, S.now)
        THEN MeLegacyLooked(UcServed(S1, "email", sub, k),
                            UcEntry(S.userCache, k).data, k)
        ELSE Await([S1 EXCEPT !.me.t0 = S.now], "me_legacy", "get_email", sub)

\* lines 561-594
MeBegin(S) ==
    LET tok == S.me.tok
        v == verify_token(tok, S.jwks, S.now, S.prov)
        S2 == [S EXCEPT !.jwks = v.j, !.me.verifies = @ + 1,
                        !.me.forced = v.forced, !.me.vstatus = v.status,
                        !.me.gets = v.gets,
                        !.me.vraised = v.raised,
                        !.me.outage = @ \/ (v.raised = 503)]
        c == tok.claims
        email == EmailClaim(c)
        app_id == IF c.appid # "" THEN c.appid ELSE c.azp
        k == CacheKey("entra_oid", c.oid)
        S3 == [S2 EXCEPT !.me.oid = c.oid, !.me.email = email, !.me.roles = c.roles]
    IN  IF ~is_entra_enabled(S.cfg) THEN MeLegacy(S)
        ELSE IF v.status # 200 THEN MeLegacy(S2)
        ELSE IF email = "" \/ c.oid = ""
        THEN IF app_id # "" /\ c.scp = "" /\ c.oid = ""
             THEN Done(S2, 200, AppIdentity(app_id, c.roles))
             ELSE MeLegacy(S2)
        ELSE IF UcHit(S.userCache, k, S.now)
        THEN MeAfterOid(UcServed(S3, "entra_oid", c.oid, k),
                        UcEntry(S.userCache, k).data, k)
        ELSE Await([S3 EXCEPT !.me.t0 = S.now], "me_oid", "get_oid", c.oid)

MeOidFetched(S) ==
    LET k == CacheKey("entra_oid", S.me.oid)
    IN  MeAfterOid(UcFilled(S, k), UcFetched(S), k)

MeEmailFetched(S) ==
    LET k == GetUserByEmailKey(S.me.email)
    IN  MeAfterEmail(UcFilled(S, k), UcFetched(S), k)

MeLegacyFetched(S) ==
    LET k == GetUserByEmailKey(S.me.tok.sub)
    IN  MeLegacyLooked(UcFilled(S, k), UcFetched(S), k)

\* register_user lines 479-483: create_user returned
RegCreated(S, user) ==
    Done([S EXCEPT !.userCache = cache_user(@, user, S.now)], 200, None)

\* create_user returns to the caller it has
CuReturned(S, user) ==
    IF S.me.entry = "register" THEN RegCreated(S, user)
    ELSE IF S.me.entry = "me" THEN MeCreated(S, user)
    ELSE GocCreated(S, user)

\* create_user raises: register_user lines 484-492 answer 500
CuRaised(S) ==
    IF S.me.entry = "register" THEN Done(S, 500, None)
    ELSE IF S.me.entry = "me" THEN MeCreateFailed(S)
    ELSE GocCreateFailed(S)

\* create_user lines 355-367
CuInsert(S, flt) ==
    LET S1 == SyncCall(S, flt)
        u == S.me.user
    IN  IF flt \/ create_item_conflict(S.store, u) THEN CuRaised(S1)
        ELSE CuReturned([S1 EXCEPT !.store = @ \cup {u}, !.me.inserted = @ + 1], u)

\* create_user lines 343-353 after its lookup by e-mail
CuEmailLooked(S, flt) ==
    LET r == S.me.ret
    IN  IF ~r.ok THEN CuRaised(S)
        ELSE IF r.val # None THEN CuReturned(S, r.val)
        ELSE IF S.me.user.entra_oid # ""
        THEN Await(S, "cu_oid", "get_oid", S.me.user.entra_oid)
        ELSE CuInsert(S, flt)

\* create_user lines 349-367 after its lookup by entra_oid
CuOidLooked(S, flt) ==
    LET r == S.me.ret
    IN  IF ~r.ok THEN CuRaised(S)
        ELSE IF r.val # None THEN CuReturned(S, r.val)
        ELSE CuInsert(S, flt)

\* lines 163-169 after the re-check
GocRetryLooked(S) ==
    LET r == S.me.ret
    IN  IF r.ok /\ r.val # None THEN GocLeave(S, TRUE, r.val, FALSE)
        ELSE GocLeave(S, FALSE, None, FALSE)

(***************************************************************************)
(* register_user (auth.py lines 423-496)                                   *)
(***************************************************************************)
\* lines 452-479: the cached lookup answered
RegLooked(S, user) ==
    LET user_data ==
            UserRec(UserIdAt(S.now), S.me.email, "", <<"standard">>, "standard",
                    "legacy", "")
    IN  IF user # None THEN Done(S, 400, None)
        ELSE Await([S EXCEPT !.me.user = user_data],
                   "cu_email", "get_email", user_data.email)

\* lines 431-451
RegisterBegin(S, email_in) ==
    LET email == LowerStrip(email_in)
        k == CacheKey("email", Lower(email))
        S1 == [S EXCEPT !.me.email = email]
    IN  IF UcHit(S.userCache, k, S.now)
        THEN RegLooked(UcServed(S1, "email", email, k), UcEntry(S.userCache, k).data)
        ELSE Await([S1 EXCEPT !.me.t0 = S.now], "reg_email", "get_email", email)

RegEmailFetched(S) ==
    LET k == CacheKey("email", Lower(S.me.email))
    IN  RegLooked(UcFilled(S, k), UcFetched(S))

(***************************************************************************)
(* get_current_user_any after its awaited lookups (lines 930-932, 956-964) *)
(***************************************************************************)
AnyOidLooked(S) ==
    LET r == S.me.ret
    IN  IF ~r.ok THEN EntraFailedAny(S)
        ELSE IF r.val # None THEN AnyFound(S, r.val, "oid")
        ELSE Await(S, "any_email", "get_email", S.me.email)

AnyEmailLooked(S) ==
    LET r == S.me.ret
    IN  IF ~r.ok THEN EntraFailedAny(S)
        ELSE IF r.val # None THEN AnyFound(S, r.val, "email")
        ELSE GocEnter(S)

(***************************************************************************)
(* get_current_user_cached, the Entra attempt (auth.py lines 734-819)      *)
(***************************************************************************)
\* lines 774-789: a record was found; the assignments go into the dict the
\* cached lookup returned, which is the data of the cache entry under k
CachedFound(S, user, k, via) ==
    LET roles == S.me.roles
        u1 == [user EXCEPT !.auth_type = "entra", !.entra_oid = S.me.oid,
                           !.roles = IF Len(roles) > 0 THEN roles ELSE @]
        u2 == IF Len(u1.roles) = 0
              THEN [u1 EXCEPT !.roles = <<IF u1.role = "" THEN "standard"
                                          ELSE u1.role>>]
              ELSE u1
    IN  Done([S EXCEPT !.userCache = UcMutate(@, k, u2), !.me.read = user,
                       !.me.via = via],
             200, u2)

\* lines 772-802 once the lookup by e-mail has answered
CachedAfterEmail(S, user, k) ==
    IF user # None THEN CachedFound(S, user, k, "email") ELSE GocEnter(S)

\* line 772
CachedLookupEmail(S) ==
    LET k == CacheKey("email", Lower(S.me.email))
    IN  IF UcHit(S.userCache, k, S.now)
        THEN CachedAfterEmail(UcServed(S, "email", S.me.email, k),
                              UcEntry(S.userCache, k).data, k)
        ELSE Await([S EXCEPT !.me.t0 = S.now], "cached_email", "get_email",
                   S.me.email)

\* lines 770-774 once the lookup by entra_oid has answered
CachedAfterOid(S, user, k) ==
    IF user # None THEN CachedFound(S, user, k, "oid") ELSE CachedLookupEmail(S)

\* variant: the service identity is put into the user cache as users are
CachedBeginCachesApp(S) ==
    LET tok == S.me.tok
        v == verify_token(tok, S.jwks, S.now, S.prov)
        S2 == [S EXCEPT !.jwks = v.j, !.me.verifies = @ + 1,
                        !.me.forced = v.forced, !.me.vstatus = v.status,
                        !.me.gets = v.gets,
                        !.me.vraised = v.raised,
                        !.me.outage = @ \/ (v.raised = 503)]
        c == tok.claims
        email == EmailClaim(c)
        app_id == IF c.appid # "" THEN c.appid ELSE c.azp
        app == AppIdentity(app_id, c.roles)
        k == CacheKey("entra_oid", c.oid)
        S3 == [S2 EXCEPT !.me.oid = c.oid, !.me.email = email, !.me.roles = c.roles]
    IN  IF ~is_entra_enabled(S.cfg) THEN LegacyCached(S)
        ELSE IF v.status # 200 THEN LegacyCached(S2)
        ELSE IF email = "" \/ c.oid = ""
        THEN IF is_app_only(c, c.roles)
             THEN Done([S2 EXCEPT !.userCache =
                            UcPut(@, {CacheKey("user_id", app.id)}, app, S.now)],
                       200, app)
             ELSE LegacyCached(S2)
        ELSE IF UcHit(S.userCache, k, S.now)
        THEN CachedAfterOid(UcServed(S3, "entra_oid", c.oid, k),
                            UcEntry(S.userCache, k).data, k)
        ELSE Await([S3 EXCEPT !.me.t0 = S.now], "cached_oid", "get_oid", c.oid)

\* lines 734-770: no AuthenticationCache here; AUTH_METHOD matters only in
\* that get_entra_service (dependencies.py lines 78-104) injects None when
\* Entra is disabled, and entra_auth.verify_token then raises
CachedBegin(S) ==
    LET tok == S.me.tok
        v == verify_token(tok, S.jwks, S.now, S.prov)
        S2 == [S EXCEPT !.jwks = v.j, !.me.verifies = @ + 1,
                        !.me.forced = v.forced, !.me.vstatus = v.status,
                        !.me.gets = v.gets,
                        !.me.vraised = v.raised,
                        !.me.outage = @ \/ (v.raised = 503)]
        c == tok.claims
        email == EmailClaim(c)
        app_id == IF c.appid # "" THEN c.appid ELSE c.azp
        k == CacheKey("entra_oid", c.oid)
        S3 == [S2 EXCEPT !.me.oid = c.oid, !.me.email = email, !.me.roles = c.roles]
    IN  IF ~is_entra_enabled(S.cfg) THEN LegacyCached(S)
        ELSE IF v.status # 200 THEN LegacyCached(S2)
        ELSE IF email = "" \/ c.oid = ""
        THEN IF is_app_only(c, c.roles)
             THEN Done(S2, 200, AppIdentity(app_id, c.roles))
             ELSE LegacyCached(S2)
        ELSE IF UcHit(S.userCache, k, S.now)
        THEN CachedAfterOid(UcServed(S3, "entra_oid", c.oid, k),
                            UcEntry(S.userCache, k).data, k)
        ELSE Await([S3 EXCEPT !.me.t0 = S.now], "cached_oid", "get_oid", c.oid)

CachedOidFetched(S) ==
    LET k == CacheKey("entra_oid", S.me.oid)
    IN  CachedAfterOid(UcFilled(S, k), UcFetched(S), k)

CachedEmailFetched(S) ==
    LET k == CacheKey("email", Lower(S.me.email))
    IN  CachedAfterEmail(UcFilled(S, k), UcFetched(S), k)

(***************************************************************************)
(* get_current_user_entra (auth.py lines 233-344)                          *)
(***************************************************************************)
\* lines 313-341 once the lookup by e-mail has answered
EntraAfterEmail(S, user, k) ==
    LET merged == MergeFoundAny(user, S.me.oid, S.me.roles)
    IN  IF user # None
        THEN Await([S EXCEPT !.userCache = UcMutate(@, k, merged),
                             !.me.user = merged, !.me.read = user,
                             !.me.via = "email"],
                   "entra_upd", "update", merged)
        ELSE GocEnter(S)

\* lines 335-344: update_user returned or raised; the call of
\* invalidate_user_cache(user_id=..., email=..., entra_oid=...) does not fit
\* invalidate_user_cache(identifier, lookup_type) and raises TypeError, which
\* the except clause turns into 401 as it does a store error
EntraUpdated(S) == Done(S, 401, None)

\* line 314
EntraLookupEmail(S) ==
    LET k == CacheKey("email", Lower(S.me.email))
    IN  IF UcHit(S.userCache, k, S.now)
        THEN EntraAfterEmail(UcServed(S, "email", S.me.email, k),
                             UcEntry(S.userCache, k).data, k)
        ELSE Await([S EXCEPT !.me.t0 = S.now], "entra_email", "get_email",
                   S.me.email)

\* lines 283-300 once the lookup by entra_oid has answered
EntraAfterOid(S, user, k) ==
    LET u == [user EXCEPT !.auth_type = "entra", !.last_login = S.now,
                          !.roles = IF Len(@) = 0 THEN <<"standard">> ELSE @]
    IN  IF user # None
        THEN Await([S EXCEPT !.userCache = UcMutate(@, k, u), !.me.user = u,
                             !.me.read = user, !.me.via = "oid"],
                   "entra_touch", "update_fields", u.id)
        ELSE EntraLookupEmail(S)

\* lines 300-311: update_user(id, {last_login}) returned or raised
EntraTouched(S) ==
    LET u == S.me.user
        uc1 == invalidate_user_cache(S.userCache, S.me.oid, "entra_oid")
        uc2 == IF u.email # "" THEN invalidate_user_cache(uc1, u.email, "email")
               ELSE uc1
    IN  IF S.me.ret.ok THEN Done([S EXCEPT !.userCache = uc2], 200, u)
        ELSE Done(S, 200, u)

\* lines 244-283
EntraBegin(S) ==
    LET tok == S.me.tok
        v == verify_token(tok, S.jwks, S.now, S.prov)
        S2 == [S EXCEPT !.jwks = v.j, !.me.verifies = @ + 1,
                        !.me.forced = v.forced, !.me.vstatus = v.status,
                        !.me.gets = v.gets,
                        !.me.vraised = v.raised,
                        !.me.outage = @ \/ (v.raised = 503)]
        c == tok.claims
        email == LowerStrip(EmailClaim(c))
        app_id == IF c.appid # "" THEN c.appid ELSE c.azp
        k == CacheKey("entra_oid", c.oid)
        S3 == [S2 EXCEPT !.me.oid = c.oid, !.me.email = email, !.me.roles = c.roles]
    IN  IF ~is_entra_enabled(S.cfg) THEN Done(S, 401, None)
        ELSE IF v.status # 200 THEN Done(S2, 401, None)
        ELSE IF email = "" \/ c.oid = ""
        THEN IF is_app_only(c, c.roles)
             THEN Done(S2, 200, AppIdentity(app_id, c.roles))
             ELSE Done(S2, 401, None)
        ELSE IF UcHit(S.userCache, k, S.now)
        THEN EntraAfterOid(UcServed(S3, "entra_oid", c.oid, k),
                           UcEntry(S.userCache, k).data, k)
        ELSE Await([S3 EXCEPT !.me.t0 = S.now], "entra_oid", "get_oid", c.oid)

EntraOidFetched(S) ==
    LET k == CacheKey("entra_oid", S.me.oid)
    IN  EntraAfterOid(UcFilled(S, k), UcFetched(S), k)

EntraEmailFetched(S) ==
    LET k == CacheKey("email", Lower(S.me.email))
    IN  EntraAfterEmail(UcFilled(S, k), UcFetched(S), k)

(***************************************************************************)
(* Actions                                                                 *)
(***************************************************************************)
LockIdents == {"o1", "o2", "ann@x.org", "bob@x.org"}

InLock(t) ==
    task[t].pc \in {"goc_wait", "goc_email", "goc_oid", "cu_email", "cu_oid",
                    "goc_retry"}

UsedLocks ==
    {registry[id] : id \in LockIdents} \cup held
        \cup {task[t].lock : t \in {x \in Tasks : InLock(x)}}

\* a new asyncio.Lock()
FreshLock ==
    LET free == {i \in 1..(MaxRequests + 1) : i \notin UsedLocks}
    IN  CHOOSE i \in free : \A k \in free : i <= k

StateOf(me) ==
    [now |-> now, cfg |-> authMethod, prov |-> provider, store |-> store,
     jwks |-> jwks, authCache |-> authCache, userCache |-> userCache,
     registry |-> registry, held |-> held, cleanups |-> cleanups,
     refreshes |-> refreshes, faults |-> faults, fresh |-> FreshLock, me |-> me, call |-> NoCall]

Raises(S) == IF S.faults < MaxFaults THEN {[ok |-> FALSE, val |-> None]} ELSE {}

\* the outcomes of the awaited store call the step ends with
CallResults(S) ==
    CASE S.call.kind = "get_email" ->
            {[ok |-> TRUE, val |-> u] : u \in get_user_by_email(S.store, S.call.arg)}
                \cup Raises(S)
      [] S.call.kind = "get_oid" ->
            {[ok |-> TRUE, val |-> u] : u \in get_user_by_entra_oid(S.store, S.call.arg)}
                \cup Raises(S)
      [] S.call.kind = "update" -> {NoRet} \cup Raises(S)
      [] S.call.kind = "update_fields" ->
            IF \E x \in S.store : x.id = S.call.arg
            THEN {NoRet} \cup Raises(S)
            ELSE {[ok |-> FALSE, val |-> None]}
      [] OTHER -> {NoRet}

FaultChoices == IF faults < MaxFaults THEN BOOLEAN ELSE {FALSE}

(***************************************************************************)
(* The cache-management endpoints of app/routers/admin.py.  Each depends   *)
(* on get_current_user_any and runs its body, which has no await, once the *)
(* resolver has returned an identity; served is the status it answers.     *)
(***************************************************************************)
EndpointBody(S) ==
    LET ep == S.me.endpoint
    IN  CASE ep.op = "cache_stats" ->
                \* lines 116-140: auth_cache.stats()
                [S EXCEPT !.me.served = 200]
          [] ep.op = "cache_clear" ->
                \* lines 143-170: auth_cache.clear()
                [S EXCEPT !.authCache = [h \in DOMAIN @ |-> NoEntry],
                          !.me.served = 200]
          [] ep.op = "jwks_refresh" ->
                \* lines 228-271: the service has no refresh_jwks_cache; the
                \* AttributeError is answered with 500
                [S EXCEPT !.me.served = IF is_entra_enabled(S.cfg) THEN 500 ELSE 400]
          [] ep.op = "user_cache_invalidate" ->
                \* lines 390-416
                [S EXCEPT !.userCache = invalidate_user_cache(@, ep.identifier,
                                                              ep.lookup_type),
                          !.me.served = 200]
          [] ep.op = "user_cache_clear" ->
                \* lines 419-433: clear_all_cache()
                [S EXCEPT !.userCache = {}, !.me.served = 200]
          [] OTHER -> S

\* the body runs when the dependency has returned an identity; a resolver
\* that raised has answered the request already
Served(S) ==
    IF S.me.pc = "done" /\ S.me.status = 200 /\ S.me.endpoint.op # ""
          /\ S.me.served = 0
    THEN EndpointBody(S)
    ELSE S

\* the step of task t that ends in the state S0 of the resolver
Commit(t, S0) ==
    LET S == Served(S0) IN
    \E r \in CallResults(S) :
        /\ store' = IF S.call.kind = "update" /\ r.ok
                    THEN upsert_item(S.store, S.call.arg)
                    ELSE IF S.call.kind = "update_fields" /\ r.ok
                    THEN update_last_login(S.store, S.call.arg, S.now)
                    ELSE S.store
        /\ faults' = IF r.ok \/ S.faults >= MaxFaults THEN S.faults ELSE S.faults + 1
        /\ task' = [task EXCEPT ![t] =
                      [S.me EXCEPT !.ret = r,
                                   !.ops = IF S.call.kind = "none" THEN @ ELSE @ + 1,
                                   !.outage = @ \/ ~r.ok]]
        /\ jwks' = S.jwks
        /\ authCache' = S.authCache
        /\ userCache' = S.userCache
        /\ registry' = S.registry
        /\ held' = S.held
        /\ cleanups' = S.cleanups
        /\ refreshes' = S.refreshes
        /\ UNCHANGED <<now, authMethod, provider>>

NewRequest(entry, tok) ==
    [IdleTask EXCEPT !.entry = entry, !.tok = tok, !.req = started + 1]

Free(t) == task[t].pc \in {"idle", "done"}

\* a new request runs as the first task that is not running one
CanStart(t) ==
    /\ Free(t)
    /\ \A u \in Tasks : u < t => ~Free(u)
    /\ started < MaxRequests

\* a request that depends on get_current_user_any arrives with a token of toks
ResolveAny(t, toks) ==
    /\ CanStart(t)
    /\ \E tok \in toks : Commit(t, AnyBegin(StateOf(NewRequest("any", tok))))
    /\ started' = started + 1

\* a request that depends on get_current_user_any arrives with a short-lived
\* token of toks
ResolveAged(t, toks) ==
    /\ CanStart(t)
    /\ \E tok \in toks :
           Commit(t, AnyBegin(StateOf(NewRequest("any", AtTime(tok, now)))))
    /\ started' = started + 1

\* GET /me arrives with a token of toks, with or without audit_login
GetMe(t, toks) ==
    /\ CanStart(t)
    /\ \E tok \in toks, audit \in BOOLEAN :
           Commit(t, MeBegin(StateOf([NewRequest("me", tok)
                                         EXCEPT !.audit = audit])))
    /\ started' = started + 1

ResolveCached(t, toks) ==
    /\ CanStart(t)
    /\ \E tok \in toks : Commit(t, CachedBegin(StateOf(NewRequest("cached", tok))))
    /\ started' = started + 1

ResolveEntra(t, toks) ==
    /\ CanStart(t)
    /\ \E tok \in toks : Commit(t, EntraBegin(StateOf(NewRequest("entra", tok))))
    /\ started' = started + 1

\* a request for a cache-management endpoint arrives with a token of toks
ResolveAdmin(t, toks, endpoints) ==
    /\ CanStart(t)
    /\ \E tok \in toks, ep \in endpoints :
           Commit(t, AnyBegin(StateOf([NewRequest("any", tok)
                                          EXCEPT !.endpoint = ep])))
    /\ started' = started + 1

\* POST /register with an e-mail of emails and a password
RegisterUser(t, emails) ==
    /\ CanStart(t)
    /\ \E e \in emails :
           Commit(t, RegisterBegin(StateOf(NewRequest("register", None)), e))
    /\ started' = started + 1

AnyOidStep(t) ==
    /\ task[t].pc = "any_oid"
    /\ Commit(t, AnyOidLooked(StateOf(task[t])))
    /\ UNCHANGED started

AnyEmailStep(t) ==
    /\ task[t].pc = "any_email"
    /\ Commit(t, AnyEmailLooked(StateOf(task[t])))
    /\ UNCHANGED started

AnyUpdStep(t) ==
    /\ task[t].pc = "any_upd"
    /\ Commit(t, AnyUpdated(StateOf(task[t])))
    /\ UNCHANGED started

AnyLegacyStep(t) ==
    /\ task[t].pc = "any_legacy"
    /\ Commit(t, AnyLegacyLooked(StateOf(task[t])))
    /\ UNCHANGED started

CachedOidStep(t) ==
    /\ task[t].pc = "cached_oid"
    /\ Commit(t, CachedOidFetched(StateOf(task[t])))
    /\ UNCHANGED started

CachedEmailStep(t) ==
    /\ task[t].pc = "cached_email"
    /\ Commit(t, CachedEmailFetched(StateOf(task[t])))
    /\ UNCHANGED started

CachedLegacyStep(t) ==
    /\ task[t].pc = "cached_legacy"
    /\ Commit(t, CachedLegacyFetched(StateOf(task[t])))
    /\ UNCHANGED started

EntraOidStep(t) ==
    /\ task[t].pc = "entra_oid"
    /\ Commit(t, EntraOidFetched(StateOf(task[t])))
    /\ UNCHANGED started

EntraEmailStep(t) ==
    /\ task[t].pc = "entra_email"
    /\ Commit(t, EntraEmailFetched(StateOf(task[t])))
    /\ UNCHANGED started

EntraTouchStep(t) ==
    /\ task[t].pc = "entra_touch"
    /\ Commit(t, EntraTouched(StateOf(task[t])))
    /\ UNCHANGED started

EntraUpdStep(t) ==
    /\ task[t].pc = "entra_upd"
    /\ Commit(t, EntraUpdated(StateOf(task[t])))
    /\ UNCHANGED started

RegEmailStep(t) ==
    /\ task[t].pc = "reg_email"
    /\ Commit(t, RegEmailFetched(StateOf(task[t])))
    /\ UNCHANGED started

\* a task waiting for the per-identifier lock gets it
GocWaitStep(t) ==
    /\ task[t].pc = "goc_wait"
    /\ task[t].lock \notin held
    /\ Commit(t, GocAcquire(StateOf(task[t])))
    /\ UNCHANGED started

GocEmailStep(t) ==
    /\ task[t].pc = "goc_email"
    /\ \E flt \in FaultChoices : Commit(t, GocEmailLooked(StateOf(task[t]), flt))
    /\ UNCHANGED started

GocOidStep(t) ==
    /\ task[t].pc = "goc_oid"
    /\ \E flt \in FaultChoices : Commit(t, GocOidLooked(StateOf(task[t]), flt))
    /\ UNCHANGED started

MeOidStep(t) ==
    /\ task[t].pc = "me_oid"
    /\ Commit(t, MeOidFetched(StateOf(task[t])))
    /\ UNCHANGED started

MeEmailStep(t) ==
    /\ task[t].pc = "me_email"
    /\ Commit(t, MeEmailFetched(StateOf(task[t])))
    /\ UNCHANGED started

MeLegacyStep(t) ==
    /\ task[t].pc = "me_legacy"
    /\ Commit(t, MeLegacyFetched(StateOf(task[t])))
    /\ UNCHANGED started

CuEmailStep(t) ==
    /\ task[t].pc = "cu_email"
    /\ \E flt \in FaultChoices : Commit(t, CuEmailLooked(StateOf(task[t]), flt))
    /\ UNCHANGED started

CuOidStep(t) ==
    /\ task[t].pc = "cu_oid"
    /\ \E flt \in FaultChoices : Commit(t, CuOidLooked(StateOf(task[t]), flt))
    /\ UNCHANGED started

GocRetryStep(t) ==
    /\ task[t].pc = "goc_retry"
    /\ Commit(t, GocRetryLooked(StateOf(task[t])))
    /\ UNCHANGED started

\* cleanup_user_lock_delayed (lines 178-181) wakes up and runs
\* cleanup_user_lock (lines 36-40)
CleanupUserLock ==
    \E c \in cleanups :
        /\ now >= c.due
        /\ registry' = [registry EXCEPT ![c.ident] = 0]
        /\ cleanups' = cleanups \ {c}
        /\ UNCHANGED <<now, authMethod, provider, jwks, store, authCache,
                       userCache, held, task, refreshes, faults, started>>

Tick ==
    /\ now + TickStep <= MaxTime
    /\ now' = now + TickStep
    /\ UNCHANGED <<authMethod, provider, jwks, store, authCache, userCache,
                   registry, held, cleanups, task, refreshes, faults, started>>

\* the time passes while a cleanup_user_lock_delayed task sleeps (line 180)
SleepTick ==
    /\ \E c \in cleanups : c.due > now
    /\ now' = now + TickStep
    /\ UNCHANGED <<authMethod, provider, jwks, store, authCache, userCache,
                   registry, held, cleanups, task, refreshes, faults, started>>

\* a created _background_refresh_user task starts and awaits its store query
\* (lines 396-401); the query answers with a record the store holds or raises
BackgroundRefreshFetch ==
    \E r \in refreshes :
        /\ r.pc = "scheduled"
        /\ \E ret \in
                {[ok |-> TRUE, val |-> u] :
                    u \in IF r.lookup_type = "entra_oid"
                          THEN get_user_by_entra_oid(store, r.identifier)
                          ELSE get_user_by_email(store, r.identifier)}
                \cup (IF faults < MaxFaults THEN {[ok |-> FALSE, val |-> None]}
                      ELSE {}) :
              /\ refreshes' = (refreshes \ {r})
                                 \cup {[r EXCEPT !.pc = "fetching", !.ret = ret]}
              /\ faults' = IF ret.ok THEN faults ELSE faults + 1
        /\ UNCHANGED <<now, authMethod, provider, jwks, store, authCache,
                       userCache, registry, held, cleanups, task, started>>

\* the query of a refresh task has answered (lines 409-419); the task ends
BackgroundRefreshEnd ==
    \E r \in refreshes :
        /\ r.pc = "fetching"
        /\ userCache' = BackgroundRefreshApply(userCache, r, now)
        /\ refreshes' = refreshes \ {r}
        /\ UNCHANGED <<now, authMethod, provider, jwks, store, authCache,
                       registry, held, cleanups, task, faults, started>>

\* the lookup keys the cache holds: len(self.user_cache) counts them
UcKeys(uc) == UNION {e.keys : e \in uc}

\* _cleanup_expired_cache (lines 68-95), run by a timer thread every 300 s:
\* the expired entries are removed; if more than max_cache_size keys remain,
\* the keys are sorted by timestamp and the first len - max_cache_size of
\* them are deleted (keys of one timestamp in the order the dict has them)
CleanupExpiredCache ==
    LET live == {e \in userCache : ~(now - e.timestamp > UserCacheTtl)}
        keys == UcKeys(live)
        excess == Cardinality(keys) - MaxCacheSize
    IN  /\ live # userCache \/ excess > 0
        /\ IF excess > 0
           THEN \E ks \in SUBSET keys :
                    /\ Cardinality(ks) = excess
                    /\ \A k \in ks, k2 \in keys \ ks :
                           UcEntry(live, k).timestamp <= UcEntry(live, k2).timestamp
                    /\ userCache' = UcWithout(live, ks)
           ELSE userCache' = live
        /\ UNCHANGED <<now, authMethod, provider, jwks, store, authCache,
                       registry, held, cleanups, task, refreshes, faults, started>>

\* the time of SpecRefresh, in steps that reach the refresh window of an entry
RefreshTick ==
    /\ now + RefreshTickStep <= RefreshMaxTime
    /\ now' = now + RefreshTickStep
    /\ UNCHANGED <<authMethod, provider, jwks, store, authCache, userCache,
                   registry, held, cleanups, task, refreshes, faults, started>>

\* the time of SpecTtl, in steps that reach the TTL of either cache exactly
TtlTick ==
    /\ now + TtlTickStep <= TtlMaxTime
    /\ now' = now + TtlTickStep
    /\ UNCHANGED <<authMethod, provider, jwks, store, authCache, userCache,
                   registry, held, cleanups, task, refreshes, faults, started>>

\* PATCH /admin/users/{id}/role by another administrator:
\* update_user_role reads the record, sets roles and role and upserts it
AdminUpdateUserRole(new_role) ==
    /\ \E u \in store :
          /\ u.roles # <<new_role>>
          /\ store' = upsert_item(store, [u EXCEPT !.roles = <<new_role>>,
                                                   !.role = new_role])
    /\ UNCHANGED <<now, authMethod, provider, jwks, authCache, userCache,
                   registry, held, cleanups, task, refreshes, faults, started>>

\* DELETE /admin/users/{id} by another administrator, here once the
\* short-lived token has expired: delete_user removes the document
AdminDeleteUser ==
    /\ now >= TokenExp
    /\ \E u \in store : store' = store \ {u}
    /\ UNCHANGED <<now, authMethod, provider, jwks, authCache, userCache,
                   registry, held, cleanups, task, refreshes, faults, started>>

\* AuthenticationCache.clear()
AuthCacheClear ==
    /\ \E h \in DOMAIN authCache : authCache[h] # NoEntry
    /\ authCache' = [h \in DOMAIN authCache |-> NoEntry]
    /\ UNCHANGED <<now, authMethod, provider, jwks, store, userCache,
                   registry, held, cleanups, task, refreshes, faults, started>>

\* the provider goes down, comes back or rotates its keys
ProviderChange ==
    /\ provider' \in ProviderStates \ {provider}
    /\ UNCHANGED <<now, authMethod, jwks, store, authCache, userCache,
                   registry, held, cleanups, task, refreshes, faults, started>>

(***************************************************************************)
(* Initial states.  The process has started at StartTime: the Entra        *)
(* service, where Entra is enabled, has been built and has tried to        *)
(* pre-fetch the key set (entra_auth.py lines 37-42); caches and the lock  *)
(* registry are empty.                                                     *)
(***************************************************************************)
ProviderDown == [up |-> FALSE, kids |-> {}]

ProviderUp == [up |-> TRUE, kids |-> {"k1"}]

InitWith(methods, providers, stores) ==
    /\ now = StartTime
    /\ authMethod \in methods
    /\ provider \in providers
    /\ jwks = IF is_entra_enabled(authMethod)
              THEN FetchJwksWithCache(EmptyJwks, StartTime, provider).j
              ELSE EmptyJwks
    /\ store \in stores
    /\ authCache = [h \in TokenHashes |-> NoEntry]
    /\ userCache = {}
    /\ registry = [id \in LockIdents |-> 0]
    /\ held = {}
    /\ cleanups = {}
    /\ task = [t \in Tasks |-> IdleTask]
    /\ refreshes = {}
    /\ faults = 0
    /\ started = 0

(***************************************************************************)
(* Spec: requests through get_current_user_any with its AuthenticationCache *)
(***************************************************************************)
Init ==
    InitWith({"legacy", "entra", "both"}, {ProviderUp},
             {{}, {LegacyAnn(<<"editor">>, "editor")}, {EntraAnn(<<"editor">>)}})

AnyTokens == {TUser, TApp, TLocal, TExpired}

Next ==
    \/ \E t \in Tasks : ResolveAny(t, AnyTokens)
    \/ \E t \in Tasks : AnyOidStep(t)
    \/ \E t \in Tasks : AnyEmailStep(t)
    \/ \E t \in Tasks : AnyUpdStep(t)
    \/ \E t \in Tasks : AnyLegacyStep(t)
    \/ \E t \in Tasks : GocWaitStep(t)
    \/ \E t \in Tasks : GocEmailStep(t)
    \/ \E t \in Tasks : GocOidStep(t)
    \/ \E t \in Tasks : CuEmailStep(t)
    \/ \E t \in Tasks : CuOidStep(t)
    \/ \E t \in Tasks : GocRetryStep(t)
    \/ CleanupUserLock
    \/ Tick

Spec == Init /\ [][Next]_vars

(***************************************************************************)
(* SpecCreate: first-time resolutions of one person the store has no       *)
(* record of                                                               *)
(***************************************************************************)
InitCreate == InitWith({"both"}, {ProviderUp}, {{}})

NextCreate ==
    \/ \E t \in Tasks : ResolveAny(t, {TUser})
    \/ \E t \in Tasks : ResolveCached(t, {TUser})
    \/ \E t \in Tasks : AnyOidStep(t)
    \/ \E t \in Tasks : AnyEmailStep(t)
    \/ \E t \in Tasks : AnyUpdStep(t)
    \/ \E t \in Tasks : CachedOidStep(t)
    \/ \E t \in Tasks : CachedEmailStep(t)
    \/ \E t \in Tasks : GocWaitStep(t)
    \/ \E t \in Tasks : GocEmailStep(t)
    \/ \E t \in Tasks : GocOidStep(t)
    \/ \E t \in Tasks : CuEmailStep(t)
    \/ \E t \in Tasks : CuOidStep(t)
    \/ \E t \in Tasks : GocRetryStep(t)
    \/ CleanupUserLock
    \/ Tick

SpecCreate == InitCreate /\ [][NextCreate]_vars

(***************************************************************************)
(* SpecStore: every writer of the user store at work on one person:        *)
(* resolutions of remote and local tokens and registrations                *)
(***************************************************************************)
NextStore ==
    \/ \E t \in Tasks : ResolveAny(t, {TUser, TLocal})
    \/ \E t \in Tasks : ResolveCached(t, {TUser})
    \/ \E t \in Tasks : RegisterUser(t, {" Ann@x.org "})
    \/ \E t \in Tasks : AnyOidStep(t)
    \/ \E t \in Tasks : AnyEmailStep(t)
    \/ \E t \in Tasks : AnyUpdStep(t)
    \/ \E t \in Tasks : AnyLegacyStep(t)
    \/ \E t \in Tasks : CachedOidStep(t)
    \/ \E t \in Tasks : CachedEmailStep(t)
    \/ \E t \in Tasks : RegEmailStep(t)
    \/ \E t \in Tasks : GocWaitStep(t)
    \/ \E t \in Tasks : GocEmailStep(t)
    \/ \E t \in Tasks : GocOidStep(t)
    \/ \E t \in Tasks : CuEmailStep(t)
    \/ \E t \in Tasks : CuOidStep(t)
    \/ \E t \in Tasks : GocRetryStep(t)
    \/ CleanupUserLock
    \/ Tick

SpecStore == InitCreate /\ [][NextStore]_vars

(***************************************************************************)
(* SpecMerge: the three resolvers at work on a person the store has one    *)
(* record of.  The record keeps its e-mail, so the lookup by e-mail inside *)
(* get_or_create_entra_user (line 110) always finds it and the function    *)
(* goes no further.                                                        *)
(***************************************************************************)
InitMerge ==
    InitWith({"both"}, {ProviderUp},
             {{LegacyAnn(<<"editor">>, "editor")}, {LegacyAnn(<<>>, "")},
              {EntraAnn(<<"editor">>)}})

UserTokens == {TUser, TAdmin}

NextMerge ==
    \/ \E t \in Tasks : ResolveAny(t, {TUser})
    \/ \E t \in Tasks : ResolveCached(t, UserTokens)
    \/ \E t \in Tasks : ResolveEntra(t, {TUser})
    \/ \E t \in Tasks : AnyOidStep(t)
    \/ \E t \in Tasks : AnyEmailStep(t)
    \/ \E t \in Tasks : AnyUpdStep(t)
    \/ \E t \in Tasks : CachedOidStep(t)
    \/ \E t \in Tasks : CachedEmailStep(t)
    \/ \E t \in Tasks : EntraOidStep(t)
    \/ \E t \in Tasks : EntraEmailStep(t)
    \/ \E t \in Tasks : EntraTouchStep(t)
    \/ \E t \in Tasks : EntraUpdStep(t)
    \/ \E t \in Tasks : GocEmailStep(t)
    \/ CleanupUserLock
    \/ Tick

SpecMerge == InitMerge /\ [][NextMerge]_vars

(***************************************************************************)
(* SpecLocal: tokens signed with the shared secret                         *)
(***************************************************************************)
InitLocal ==
    InitWith({"legacy", "entra", "both"}, {ProviderDown, ProviderUp},
             {{}, {LegacyAnn(<<"editor">>, "editor")}, {LegacyAnn(<<>>, "")}})

LocalTokens == {TLocal, TLocalBob}

NextLocal ==
    \/ \E t \in Tasks : ResolveAny(t, LocalTokens)
    \/ \E t \in Tasks : ResolveCached(t, LocalTokens)
    \/ \E t \in Tasks : AnyLegacyStep(t)
    \/ \E t \in Tasks : CachedLegacyStep(t)
    \/ Tick

SpecLocal == InitLocal /\ [][NextLocal]_vars

(***************************************************************************)
(* SpecKeys: token verification while the key provider fails and rotates   *)
(***************************************************************************)
InitKeys ==
    InitWith({"entra", "both"}, ProviderStates, {{EntraAnn(<<"editor">>)}})

KeyTokens == {TUser, TRotated, TExpired, TGarbage}

NextKeys ==
    \/ \E t \in Tasks : ResolveAny(t, KeyTokens)
    \/ \E t \in Tasks : AnyOidStep(t)
    \/ \E t \in Tasks : AnyUpdStep(t)
    \/ ProviderChange
    \/ Tick

SpecKeys == InitKeys /\ [][NextKeys]_vars

(***************************************************************************)
(* SpecClassify: one request with a well-signed remote token of any claim  *)
(* combination, through each of the three resolvers; Ann is stored         *)
(***************************************************************************)
InitClassify == InitWith({"entra", "both"}, {ProviderUp}, {{EntraAnn(<<"editor">>)}})

ClassifyAny(t) == started = 0 /\ ResolveAny(t, ClassTokens)

ClassifyCached(t) == started = 0 /\ ResolveCached(t, ClassTokens)

ClassifyEntra(t) == started = 0 /\ ResolveEntra(t, ClassTokens)

NextClassify ==
    \/ \E t \in Tasks :
           \/ ClassifyAny(t)
           \/ ClassifyCached(t)
           \/ ClassifyEntra(t)
           \/ AnyOidStep(t)
           \/ AnyUpdStep(t)
           \/ CachedOidStep(t)
           \/ CachedEmailStep(t)
           \/ EntraOidStep(t)
           \/ EntraEmailStep(t)
           \/ EntraTouchStep(t)
           \/ EntraUpdStep(t)
    \/ Tick

SpecClassify == InitClassify /\ [][NextClassify]_vars

(***************************************************************************)
(* SpecSubject: Ann is stored with subject o1 or without subject; tokens   *)
(* with her e-mail and subject o2 are resolved                             *)
(***************************************************************************)
InitSubject ==
    InitWith({"both"}, {ProviderUp},
             {{EntraAnn(<<"editor">>)}, {LegacyAnn(<<"editor">>, "editor")}})

NextSubject ==
    \/ \E t \in Tasks : ResolveAny(t, {TOther})
    \/ \E t \in Tasks : ResolveCached(t, {TOther})
    \/ \E t \in Tasks : AnyOidStep(t)
    \/ \E t \in Tasks : AnyEmailStep(t)
    \/ \E t \in Tasks : AnyUpdStep(t)
    \/ \E t \in Tasks : CachedOidStep(t)
    \/ \E t \in Tasks : CachedEmailStep(t)
    \/ \E t \in Tasks : GocEmailStep(t)
    \/ CleanupUserLock
    \/ Tick

SpecSubject == InitSubject /\ [][NextSubject]_vars

(***************************************************************************)
(* SpecRefresh: get_current_user_cached for a known user while the entries *)
(* of the user cache age, are refreshed in the background and expire       *)
(***************************************************************************)
InitRefresh == InitWith({"entra", "both"}, {ProviderUp}, {{EntraAnn(<<"editor">>)}})

NextRefresh ==
    \/ \E t \in Tasks : ResolveCached(t, {TUser})
    \/ \E t \in Tasks : CachedOidStep(t)
    \/ \E t \in Tasks : CachedEmailStep(t)
    \/ BackgroundRefreshFetch
    \/ BackgroundRefreshEnd
    \/ CleanupExpiredCache
    \/ RefreshTick

SpecRefresh == InitRefresh /\ [][NextRefresh]_vars

(***************************************************************************)
(* SpecAdmin: the cache-management endpoints, called by a user whose roles *)
(* are ["editor"] (TUser) and by one whose token carries roles ["admin"]   *)
(* (TAdmin), next to a registration that puts a record into the user      *)
(* cache; the time stands still                                            *)
(***************************************************************************)
InitAdmin == InitWith({"entra", "both"}, {ProviderUp}, {{EntraAnn(<<"editor">>)}})

AdminEndpoints ==
    {[NoEndpoint EXCEPT !.op = op] :
        op \in {"cache_stats", "cache_clear", "jwks_refresh", "user_cache_clear"}}
      \cup {[op |-> "user_cache_invalidate", identifier |-> "bob@x.org",
             lookup_type |-> "email"]}

NextAdmin ==
    \/ \E t \in Tasks : ResolveAdmin(t, {TUser, TAdmin}, AdminEndpoints)
    \/ \E t \in Tasks : AnyOidStep(t)
    \/ \E t \in Tasks : AnyUpdStep(t)
    \/ \E t \in Tasks : RegisterUser(t, {"bob@x.org"})
    \/ \E t \in Tasks : RegEmailStep(t)
    \/ \E t \in Tasks : CuEmailStep(t)

SpecAdmin == InitAdmin /\ [][NextAdmin]_vars

(***************************************************************************)
(* SpecCase: an administrator invalidates the user-cache entry of an       *)
(* e-mail address, typed in either letter case, next to a registration of  *)
(* that address whose lookup or cache_user has filled the entry            *)
(***************************************************************************)
InitCase ==
    InitWith({"entra", "both"}, {ProviderUp}, {{EntraAnn(<<"editor">>)}, {RenamedAnn}})

CaseEndpoints ==
    {[op |-> "user_cache_invalidate", identifier |-> e, lookup_type |-> "email"] :
        e \in {"Ann@x.org", "ann@x.org"}}

NextCase ==
    \/ \E t \in Tasks : ResolveAdmin(t, {TAdmin}, CaseEndpoints)
    \/ \E t \in Tasks : AnyOidStep(t)
    \/ \E t \in Tasks : AnyUpdStep(t)
    \/ \E t \in Tasks : RegisterUser(t, {" Ann@x.org "})
    \/ \E t \in Tasks : RegEmailStep(t)
    \/ \E t \in Tasks : CuEmailStep(t)

SpecCase == InitCase /\ [][NextCase]_vars

(***************************************************************************)
(* SpecTouch: get_current_user_entra persists last_login and invalidates   *)
(* the cache keys while get_current_user_cached looks the same user up     *)
(***************************************************************************)
InitTouch == InitWith({"entra"}, {ProviderUp}, {{EntraAnn(<<"editor">>)}})

NextTouch ==
    \/ \E t \in Tasks : ResolveEntra(t, {TUser})
    \/ \E t \in Tasks : ResolveCached(t, {TUser})
    \/ \E t \in Tasks : EntraOidStep(t)
    \/ \E t \in Tasks : EntraEmailStep(t)
    \/ \E t \in Tasks : EntraTouchStep(t)
    \/ \E t \in Tasks : EntraUpdStep(t)
    \/ \E t \in Tasks : CachedOidStep(t)
    \/ \E t \in Tasks : CachedEmailStep(t)
    \/ Tick

SpecTouch == InitTouch /\ [][NextTouch]_vars

(***************************************************************************)
(* SpecProvision: first-time resolutions of one person the store has no    *)
(* record of, by a token with a roles claim and by one without             *)
(***************************************************************************)
NextProvision ==
    \/ \E t \in Tasks : ResolveAny(t, {TAdmin})
    \/ \E t \in Tasks : ResolveCached(t, {TUser})
    \/ \E t \in Tasks : AnyOidStep(t)
    \/ \E t \in Tasks : AnyEmailStep(t)
    \/ \E t \in Tasks : AnyUpdStep(t)
    \/ \E t \in Tasks : CachedOidStep(t)
    \/ \E t \in Tasks : CachedEmailStep(t)
    \/ \E t \in Tasks : GocWaitStep(t)
    \/ \E t \in Tasks : GocEmailStep(t)
    \/ \E t \in Tasks : GocOidStep(t)
    \/ \E t \in Tasks : CuEmailStep(t)
    \/ \E t \in Tasks : CuOidStep(t)
    \/ \E t \in Tasks : GocRetryStep(t)
    \/ CleanupUserLock
    \/ Tick

SpecProvision == InitCreate /\ [][NextProvision]_vars

(***************************************************************************)
(* SpecRetry: one subject known to the provider under two user names, the  *)
(* store holding a local record of the second name only                    *)
(***************************************************************************)
InitRetry == InitWith({"entra"}, {ProviderUp}, {{LegacyBob}})

NextRetry ==
    \/ \E t \in Tasks : ResolveAny(t, {TUser, TRenamed})
    \/ \E t \in Tasks : AnyOidStep(t)
    \/ \E t \in Tasks : AnyEmailStep(t)
    \/ \E t \in Tasks : AnyUpdStep(t)
    \/ \E t \in Tasks : GocWaitStep(t)
    \/ \E t \in Tasks : GocEmailStep(t)
    \/ \E t \in Tasks : GocOidStep(t)
    \/ \E t \in Tasks : CuEmailStep(t)
    \/ \E t \in Tasks : CuOidStep(t)
    \/ \E t \in Tasks : GocRetryStep(t)

SpecRetry == InitRetry /\ [][NextRetry]_vars

(***************************************************************************)
(* SpecCleanup: first-time resolutions through get_current_user_cached     *)
(* with the cleanup_user_lock_delayed tasks they leave behind.  The event  *)
(* loop runs a sleeping task when its delay is over and the clock goes on  *)
(* while one sleeps.                                                       *)
(***************************************************************************)
NextCleanup ==
    \/ \E t \in Tasks : ResolveCached(t, {TUser})
    \/ \E t \in Tasks : CachedOidStep(t)
    \/ \E t \in Tasks : CachedEmailStep(t)
    \/ \E t \in Tasks : GocWaitStep(t)
    \/ \E t \in Tasks : GocEmailStep(t)
    \/ \E t \in Tasks : GocOidStep(t)
    \/ \E t \in Tasks : CuEmailStep(t)
    \/ \E t \in Tasks : CuOidStep(t)
    \/ \E t \in Tasks : GocRetryStep(t)
    \/ CleanupUserLock
    \/ SleepTick

SpecCleanup ==
    /\ InitCreate /\ [][NextCleanup]_vars
    /\ WF_vars(CleanupUserLock) /\ WF_vars(SleepTick)

(***************************************************************************)
(* SpecTwo: first-time resolutions of two persons the store has no record  *)
(* of                                                                      *)
(***************************************************************************)
InitTwo == InitWith({"entra"}, {ProviderUp}, {{}})

NextTwo ==
    \/ \E t \in Tasks : ResolveAny(t, {TUser, TBob})
    \/ \E t \in Tasks : AnyOidStep(t)
    \/ \E t \in Tasks : AnyEmailStep(t)
    \/ \E t \in Tasks : AnyUpdStep(t)
    \/ \E t \in Tasks : GocWaitStep(t)
    \/ \E t \in Tasks : GocEmailStep(t)
    \/ \E t \in Tasks : GocOidStep(t)
    \/ \E t \in Tasks : CuEmailStep(t)
    \/ \E t \in Tasks : CuOidStep(t)
    \/ \E t \in Tasks : GocRetryStep(t)
    \/ Tick

SpecTwo == InitTwo /\ [][NextTwo]_vars

(***************************************************************************)
(* SpecTtl: one user resolved through the AuthenticationCache and through  *)
(* the user cache at entry ages up to and including both TTLs              *)
(***************************************************************************)
InitTtl == InitWith({"entra"}, {ProviderUp}, {{EntraAnn(<<"editor">>)}})

NextTtl ==
    \/ \E t \in Tasks : ResolveAny(t, {TUser})
    \/ \E t \in Tasks : ResolveCached(t, {TUser})
    \/ \E t \in Tasks : AnyOidStep(t)
    \/ \E t \in Tasks : AnyUpdStep(t)
    \/ \E t \in Tasks : CachedOidStep(t)
    \/ \E t \in Tasks : CachedEmailStep(t)
    \/ TtlTick

SpecTtl == InitTtl /\ [][NextTtl]_vars

(***************************************************************************)
(* SpecStale: requests with one short-lived token while the identity is    *)
(* cached, the token expires, another administrator changes the role of    *)
(* the stored record or deletes it, and the cache is cleared               *)
(***************************************************************************)
NextStale ==
    \/ \E t \in Tasks : ResolveAged(t, {TUser})
    \/ \E t \in Tasks : AnyOidStep(t)
    \/ \E t \in Tasks : AnyUpdStep(t)
    \/ AdminUpdateUserRole("standard")
    \/ AdminDeleteUser
    \/ AuthCacheClear
    \/ Tick

SpecStale == InitTtl /\ [][NextStale]_vars

(***************************************************************************)
(* SpecMe: GET /me with remote tokens with and without a roles claim and   *)
(* with a local token, for a person the store has a record of or none      *)
(***************************************************************************)
InitMe ==
    InitWith({"entra", "both"}, {ProviderUp},
             {{EntraAnn(<<"editor">>)}, {LegacyAnn(<<"editor">>, "editor")}, {}})

NextMe ==
    \/ \E t \in Tasks : GetMe(t, {TUser, TAdmin, TLocal})
    \/ \E t \in Tasks : MeOidStep(t)
    \/ \E t \in Tasks : MeEmailStep(t)
    \/ \E t \in Tasks : MeLegacyStep(t)
    \/ \E t \in Tasks : CuEmailStep(t)

SpecMe == InitMe /\ [][NextMe]_vars

(***************************************************************************)
(* Properties                                                              *)
(***************************************************************************)
Resolved(t) == task[t].pc = "done" /\ task[t].status = 200

Failed(t) == task[t].pc = "done" /\ task[t].status # 200

RecordsOfSubject(oid) == {u \in store : u.entra_oid = oid}

\* C1: concurrent first-time resolutions (get_current_user_any,
\* get_current_user_cached) of remote user tokens with the same subject and
\* e-mail, the store holding no record of them, insert exactly one record, and
\* every caller gets the same Identity (the same internal id).
OneCreateOneIdentity ==
    /\ Cardinality(RecordsOfSubject(TUser.claims.oid)) <= 1
    /\ \A t1, t2 \in Tasks :
           Resolved(t1) /\ Resolved(t2) => task[t1].result.id = task[t2].result.id

\* C2: in every reachable state the store holds at most one record per
\* subject (entra_oid) and at most one record per normalized e-mail.
StoreUnique ==
    \A u, v \in store :
        u # v =>
            /\ u.entra_oid = "" \/ u.entra_oid # v.entra_oid
            /\ LowerStrip(u.email) # LowerStrip(v.email)

\* task t resolved a remote user token to a record the lookups found
FoundExisting(t) == Resolved(t) /\ task[t].via \in {"oid", "email"}

\* C3: a remote user token without roles that resolves (get_current_user_any,
\* get_current_user_cached) to a stored record with roles keeps exactly the
\* stored roles, in the Identity and in the record written back; ["standard"]
\* is used only when the stored record has no roles.
StoredRolesKept ==
    /\ \A t \in Tasks :
           FoundExisting(t) /\ task[t].entry \in {"any", "cached"}
                /\ task[t].tok.claims.roles = <<>> =>
               /\ \A u \in store :
                      u.id = task[t].result.id /\ u.roles # <<>> =>
                          task[t].result.roles = u.roles
               /\ task[t].result.roles = <<"standard">> =>
                      task[t].read.roles \in {<<>>, <<"standard">>}
    /\ \A t \in Tasks :
           task[t].pc = "any_upd" /\ task[t].roles = <<>>
                /\ task[t].read.roles # <<>> =>
               task[t].user.roles = task[t].read.roles

\* C4: when a record stored by e-mail only is resolved by a remote user token
\* with subject S, then once the resolution has returned successfully the
\* stored record has subject S and a lookup by S alone, in the store or
\* through the user cache, returns that record; on every resolver.
SubjectAttached ==
    \A t \in Tasks :
        Resolved(t) /\ task[t].via = "email" /\ task[t].read.entra_oid = "" =>
            LET S == task[t].tok.claims.oid
                k == CacheKey("entra_oid", S)
            IN  /\ \E u \in store : u.id = task[t].result.id /\ u.entra_oid = S
                /\ \A u \in get_user_by_entra_oid(store, S) :
                       u # None /\ u.id = task[t].result.id
                /\ UcHit(userCache, k, now) =>
                       /\ UcEntry(userCache, k).data # None
                       /\ UcEntry(userCache, k).data.id = task[t].result.id

\* a request begins on task t in this step
Starts(t) == started' = started + 1 /\ task'[t].req = started + 1

\* task t ends in this step
Ends(t) == task'[t].pc = "done" /\ (task[t].pc # "done" \/ Starts(t))

\* AuthenticationCache holds an entry under h that has not reached its TTL
FreshEntry(h) ==
    authCache[h] # NoEntry /\ now - authCache[h].timestamp < AuthCacheTtl

\* C5: a resolve of a token whose hash has an entry younger than the TTL in
\* AuthenticationCache is answered from that entry alone: no store call, no
\* token verification, nothing changed, and the Identity is the one the
\* resolve that filled the entry returned.
CacheHitAnswersAlone ==
    [][\A t \in Tasks :
          /\ Starts(t) /\ task'[t].entry = "any"
                /\ FreshEntry(generate_token_hash(task'[t].tok)) =>
                /\ task'[t].pc = "done" /\ task'[t].status = 200
                /\ task'[t].result =
                       authCache[generate_token_hash(task'[t].tok)].user_data
                /\ task'[t].ops = 0 /\ task'[t].verifies = 0
                /\ store' = store /\ jwks' = jwks /\ authCache' = authCache
          /\ Ends(t) /\ task'[t].entry = "any" /\ task'[t].status = 200
                /\ ~task'[t].hit =>
                authCache'[generate_token_hash(task'[t].tok)] =
                    [user_data |-> task'[t].result, timestamp |-> now]]_vars

\* a second resolve of Ann's token was answered from the cache at a later time
SecondResolveFromCache ==
    \E t \in Tasks :
        /\ Resolved(t) /\ task[t].hit /\ task[t].tok = TUser
        /\ task[t].ops = 0 /\ task[t].verifies = 0
        /\ authCache[generate_token_hash(TUser)] # NoEntry
        /\ authCache[generate_token_hash(TUser)].timestamp < now

\* task t resolved a user (not an application) through get_current_user_any
ResolvedUserAny(t) ==
    Resolved(t) /\ task[t].entry = "any" /\ task[t].result.auth_type # "entra_app"

\* C6 (as stated): two resolves of one token within the TTL cost exactly one
\* store round trip in total, reads and writes counted: one for the resolve
\* that fills the cache, none for the resolve the cache answers.
OneStoreRoundTrip ==
    \A t \in Tasks :
        ResolvedUserAny(t) => task[t].ops = (IF task[t].hit THEN 0 ELSE 1)

\* C6 (amended): the resolve the cache answers costs no store round trip; the
\* resolve that fills the cache costs one for a local token, two for a remote
\* user token found by subject (lookup, write-back), three when found by
\* e-mail, and three to eight when get_or_create_entra_user provides the record.
StoreRoundTrips ==
    \A t \in Tasks :
        ResolvedUserAny(t) =>
            CASE task[t].hit -> task[t].ops = 0
              [] task[t].via = "legacy" -> task[t].ops = 1
              [] task[t].via = "oid" -> task[t].ops = 2
              [] task[t].via = "email" -> task[t].ops = 3
              [] OTHER -> task[t].ops \in 3..8

\* the cache was filled by a resolve that found Ann by subject and wrote back
FilledAfterTwoRoundTrips ==
    \E t \in Tasks :
        /\ ResolvedUserAny(t) /\ ~task[t].hit /\ task[t].via = "oid"
        /\ task[t].ops = 2
        /\ authCache[generate_token_hash(task[t].tok)] # NoEntry

\* the token validates under the local shared secret only
LocalOnly(tok) == tok.hs256 /\ tok.hdr = "nokid"

\* C7: a token that validates only under the local shared secret and whose
\* e-mail matches no stored record ends the resolve Failed with 401, and no
\* step of a resolve of such a token changes the user store.
NoLocalProvisioning ==
    [][\A t \in Tasks :
          task'[t] # task[t] /\ LocalOnly(task'[t].tok) =>
              /\ store' = store
              /\ Ends(t) /\ get_user_by_email(store, task'[t].tok.sub) = {None}
                    => task'[t].status = 401]_vars

\* both resolvers refused Bob's local token, and the store has no Bob
LocalUnknownRefused ==
    \E t1, t2 \in Tasks :
        /\ Failed(t1) /\ task[t1].entry = "any" /\ task[t1].tok = TLocalBob
        /\ Failed(t2) /\ task[t2].entry = "cached" /\ task[t2].tok = TLocalBob
        /\ task[t1].status = 401 /\ task[t2].status = 401
        /\ task[t1].ops = 1 /\ task[t2].ops = 1
        /\ get_user_by_email(store, TLocalBob.sub) = {None}

\* the header of tok names a key id
HasKid(tok) == tok.hdr \notin {"malformed", "nokid"}

\* C8: when verify_token gets a token whose key id is absent from the cached
\* key set it refetches the key set exactly once, and if the key id is still
\* absent it fails with 401 and the resolve ends Failed with 401.
UnknownKeyIsUnauthorized ==
    [][\A t \in Tasks :
          Starts(t) /\ task'[t].verifies = 1 /\ HasKid(task'[t].tok)
                /\ jwks.loaded /\ task'[t].tok.hdr \notin jwks.kids =>
              /\ task'[t].forced = 1
              /\ task'[t].tok.hdr \notin jwks'.kids =>
                    /\ task'[t].vstatus = 401
                    /\ task'[t].pc = "done" /\ task'[t].status = 401]_vars

\* C9: AuthenticationCache gets an entry for a token hash only in the step
\* in which a resolve of that token ends successfully: the token was verified,
\* the entry is the Identity returned and, for a user token, the user store
\* has the record.  No other step inserts or replaces an entry.
CacheOnlyAfterSuccess ==
    [][\A h \in TokenHashes :
          authCache'[h] # authCache[h] /\ authCache'[h] # NoEntry =>
              \E t \in Tasks :
                  /\ Ends(t) /\ task'[t].status = 200 /\ ~task'[t].hit
                  /\ generate_token_hash(task'[t].tok) = h
                  /\ authCache'[h].user_data = task'[t].result
                  /\ task'[t].vstatus = 200 \/ task'[t].tok.hs256
                  /\ task'[t].result.auth_type # "entra_app" =>
                        \E u \in store' : u.id = task'[t].result.id]_vars

\* an entry is cached for Ann's token, and a resolve of it failed on a store
\* error without leaving one
CachedAfterSuccessOnly ==
    \E t1, t2 \in Tasks :
        /\ Resolved(t1) /\ ~task[t1].hit /\ task[t1].tok = TUser
        /\ authCache[generate_token_hash(TUser)] # NoEntry
        /\ authCache[generate_token_hash(TUser)].user_data = task[t1].result
        /\ Failed(t2) /\ task[t2].outage /\ task[t2].tok = TLocal
        /\ authCache[generate_token_hash(TLocal)] = NoEntry

\* C10: a resolve during which the key provider was unreachable with no
\* usable key set, or the user store was unreachable, does not end with 401.
OutageNotUnauthorized ==
    \A t \in Tasks :
        task[t].pc = "done" /\ task[t].outage => task[t].status # 401

\* task t is a get_current_user_any request the cache did not answer
AnyAttempt(t) == task[t].pc # "idle" /\ task[t].entry = "any" /\ ~task[t].hit

\* C11: the resolver tries local verification only if local auth is enabled
\* and remote auth is disabled or verify_token rejected the token; a resolve
\* whose remote verification failed with local auth disabled ends with 401
\* without local verification; a resolve whose remote verification succeeded
\* never goes on to local verification.
LocalOnlyAfterRemoteRejected ==
    \A t \in Tasks :
        AnyAttempt(t) =>
            /\ task[t].local <= 1
            /\ task[t].local = 1 =>
                   /\ is_legacy_enabled(authMethod)
                   /\ ~is_entra_enabled(authMethod)
                          \/ (task[t].verifies = 1 /\ task[t].vstatus # 200)
            /\ task[t].verifies = 1 /\ task[t].vstatus # 200
                   /\ ~is_legacy_enabled(authMethod) =>
                   task[t].pc = "done" /\ task[t].status = 401 /\ task[t].local = 0
            /\ task[t].verifies = 1 /\ task[t].vstatus = 200 => task[t].local = 0

\* a service token: an application id, no human subject, and no delegated
\* scope or the application-authentication marker
ServiceClaims(c) ==
    /\ c.appid # "" \/ c.azp # ""
    /\ c.oid = ""
    /\ c.scp = "" \/ c.appidacr = "1"

\* the resolve of task t returned a service identity
ServiceIdentity(t) == Resolved(t) /\ task[t].result.auth_type = "entra_app"

\* C12: a verified remote token is returned as a service identity if and
\* only if it carries an application id, no subject, and no scp or
\* appidacr = 1; on every resolver.
ServiceIffAppOnly ==
    \A t \in Tasks :
        task[t].pc = "done" /\ task[t].tok \in ClassTokens =>
            (ServiceIdentity(t) <=> ServiceClaims(task[t].tok.claims))

\* C13: resolving a service token leaves the user store and the user cache
\* unchanged and makes no store call; the only thing it may change is the
\* AuthenticationCache entry under the hash of that token (and only
\* get_current_user_any has that cache).
ServiceTokenFrame ==
    [][\A t \in Tasks :
          /\ task'[t] # task[t] /\ task'[t].pc # "idle"
          /\ \/ ServiceClaims(task'[t].tok.claims)
             \/ task'[t].pc = "done" /\ task'[t].status = 200
                   /\ task'[t].result.auth_type = "entra_app"
          => /\ store' = store /\ userCache' = userCache
             /\ registry' = registry /\ task'[t].ops = 0
             /\ \A h \in TokenHashes :
                    authCache'[h] # authCache[h] =>
                        /\ h = generate_token_hash(task'[t].tok)
                        /\ task'[t].entry = "any"
                        /\ authCache'[h].user_data = task'[t].result]_vars

\* a service token was resolved by get_current_user_any and its Identity is
\* in AuthenticationCache; the store still holds Ann alone
ServiceResolvedAndCached ==
    \E t \in Tasks :
        /\ ServiceIdentity(t) /\ task[t].entry = "any"
        /\ ServiceClaims(task[t].tok.claims)
        /\ authCache[generate_token_hash(task[t].tok)] # NoEntry
        /\ authCache[generate_token_hash(task[t].tok)].user_data = task[t].result
        /\ store = {EntraAnn(<<"editor">>)} /\ userCache = {}

\* C14: every Identity a successful resolve returns has a non-empty roles
\* list; on the local path a stored record without roles is returned with
\* ["standard"] and stored roles are returned unchanged.
RolesNeverEmpty ==
    \A t \in Tasks :
        Resolved(t) /\ task[t].entry \in {"any", "cached", "entra"} =>
            /\ task[t].result.roles # <<>>
            /\ task[t].via = "legacy" =>
                   task[t].result.roles =
                       (IF task[t].read.roles = <<>> THEN <<"standard">>
                        ELSE task[t].read.roles)

\* C15: the token's subject is attached to an existing record only if the
\* record had none: the subject of a stored record that has one never
\* changes, and no cached copy of such a record carries another subject.
SubjectNotOverwritten ==
    [][/\ \A u \in store : \A v \in store' :
              u.id = v.id /\ u.entra_oid # "" => v.entra_oid = u.entra_oid
       /\ \A e \in userCache' : \A u \in store :
              e.data # None /\ e.data.id = u.id /\ u.entra_oid # "" =>
                  e.data.entra_oid = u.entra_oid]_vars

\* the key-set cache cannot answer at this time: empty or past its TTL
JwksStale == ~(jwks.loaded /\ now - jwks.ts < JwksCacheTtl)

\* C16: when the refresh of the key set fails, _fetch_jwks_with_cache
\* returns the cached set if a set was ever fetched and raises 503 only if
\* none was; the failed refresh leaves the cached set and its timestamp as
\* they were (verify_token zeroes the timestamp itself before a forced
\* refresh).
StaleKeySetOnFailure ==
    [][\A t \in Tasks :
          Starts(t) /\ task'[t].verifies = 1 /\ HasKid(task'[t].tok)
                /\ ~provider.up =>
              /\ JwksStale => task'[t].gets >= 1
              /\ task'[t].gets >= 1 =>
                    /\ jwks'.kids = jwks.kids /\ jwks'.loaded = jwks.loaded
                    /\ jwks'.ts = (IF task'[t].forced = 1 THEN 0 ELSE jwks.ts)
                    /\ task'[t].vraised = 503 <=> ~jwks.loaded
                    /\ jwks.loaded /\ task'[t].tok.hdr \in jwks.kids
                          /\ task'[t].tok.fail = "" => task'[t].vstatus = 200]_vars

\* Ann's token was verified with the stale key set: the request issued one
\* GET, the provider is down, and the cache still has the set with the
\* timestamp an earlier forced refresh had zeroed
ResolvedWithStaleKeys ==
    \E t \in Tasks :
        /\ Resolved(t) /\ ~task[t].hit /\ task[t].tok = TUser
        /\ task[t].gets = 1 /\ task[t].forced = 0 /\ task[t].vstatus = 200
        /\ ~provider.up /\ jwks.loaded /\ jwks.ts = 0 /\ jwks.kids = {"k1"}

\* C17: of the callers that find the key set missing or expired together, at
\* most one issues a remote fetch; the others pass the double check and reuse
\* the set, also when the provider is failing and when the refresh was
\* forced: once a call has issued its fetch, the cached set passes the
\* validity test that the callers behind it make.
OneFetchPerExpiry ==
    [][\A t \in Tasks :
          Starts(t) /\ task'[t].gets >= 1 /\ jwks'.loaded =>
              now - jwks'.ts < JwksCacheTtl]_vars

\* the cache-level mutexes the request of task t has held while a network or
\* store call was in progress: _fetch_jwks_with_cache issues its GET inside
\* "with self.jwks_lock" (entra_auth.py lines 56-72); cache_lock, the lock of
\* AuthenticationCache and _lock_cleanup_lock are released before any call
CacheMutexesHeldInCall(t) ==
    IF task[t].gets >= 1 THEN {"jwks_lock"} ELSE {}

\* C18: no cache-level mutex (key-set refresh lock, user-cache lock,
\* AuthenticationCache lock, lock-registry lock) is held while a network or
\* store call is in progress; only the per-identifier provisioning lock is.
NoCacheMutexAcrossCall ==
    \A t \in Tasks :
        task[t].pc # "idle" => CacheMutexesHeldInCall(t) = {}

\* the refresh tasks outstanding for the lookup key k
RefreshesOf(k) == {r \in refreshes : r.key = k}

\* C19: for every lookup key of the user cache at most one background refresh
\* is outstanding at any time, whatever the interleaving of the hits.
OneRefreshPerKey ==
    \A r \in refreshes : Cardinality(RefreshesOf(r.key)) <= 1

\* the entry under k is valid and older than 80% of its TTL
InRefreshWindow(k) ==
    /\ UcHit(userCache, k, now)
    /\ should_background_refresh(UcEntry(userCache, k), now)

\* C20: a hit on an entry older than 80% of its TTL and younger than the TTL
\* returns the cached value without a store call and creates a refresh task;
\* the task's query reads the store; when it ends, the entry under the key is
\* replaced by the value read, with the current time, only if the query
\* succeeded and the key is still in the cache; otherwise the cache is left
\* as it is; no step of a refresh task changes any request.
RefreshOnAgeingHit ==
    [][/\ \A t \in Tasks :
             LET k == CacheKey("entra_oid", task'[t].tok.claims.oid)
             IN  Starts(t) /\ InRefreshWindow(k) =>
                     /\ task'[t].ops = 0
                     /\ task'[t].read = UcEntry(userCache, k).data
                     /\ \E r \in refreshes' \ refreshes :
                            /\ r.key = k /\ r.identifier = task'[t].tok.claims.oid
                            /\ r.pc = "scheduled"
       /\ \A r \in refreshes :
             /\ r.pc = "scheduled" /\ r \notin refreshes' =>
                   /\ task' = task /\ userCache' = userCache
                   /\ \E q \in refreshes' \ refreshes :
                          /\ q.n = r.n /\ q.pc = "fetching"
                          /\ q.ret.ok =>
                                q.ret.val \in
                                   IF r.lookup_type = "entra_oid"
                                   THEN get_user_by_entra_oid(store, r.identifier)
                                   ELSE get_user_by_email(store, r.identifier)
             /\ r.pc = "fetching" /\ r \notin refreshes' =>
                   /\ task' = task
                   /\ IF r.ret.ok /\ UcHas(userCache, r.key)
                      THEN /\ UcHas(userCache', r.key)
                           /\ UcEntry(userCache', r.key) =
                                 [keys |-> {r.key}, data |-> r.ret.val,
                                  timestamp |-> now]
                      ELSE userCache' = userCache]_vars

\* the first of two refresh tasks of a key has ended and has replaced the entry
\* at the first time of the refresh window; the second is still outstanding
\* (with MaxRequests = 3 one request filled the entry and two hit it)
RefreshReplacedEntry ==
    \E r \in refreshes :
        /\ refreshes = {r} /\ r.n = 2
        /\ UcHas(userCache, r.key)
        /\ UcEntry(userCache, r.key).timestamp = StartTime + 3 * RefreshTickStep
        /\ UcEntry(userCache, r.key).data = EntraAnn(<<"editor">>)

\* C21: a user-cache miss fetches the record from the store and populates
\* every applicable lookup key of the record (id, e-mail, subject), so that a
\* lookup of the record through any of its keys right afterwards is a hit.
MissFillsEveryKey ==
    [][\A t \in Tasks :
          /\ task[t].pc = "cached_oid" /\ task'[t] # task[t]
          /\ task[t].ret.ok /\ task[t].ret.val # None
          => \A k \in CacheUserKeys(task[t].ret.val) : UcHit(userCache', k, now)]_vars

\* the step in which create_user returns a record to a caller that hands it
\* to cache_user of the shared service
CachesCreated(t) ==
    /\ task[t].pc \in {"cu_email", "cu_oid"}
    /\ task[t].entry \in {"cached", "register"}
    /\ task'[t].pc = "done" /\ task'[t].status = 200

\* C22: cache_user puts one entry under the key by id, the key by lower-cased
\* e-mail when the record has an e-mail and the key by entra_oid when it has
\* one, and under no other key; the other keys keep what they had; called
\* with no record it changes nothing.
CacheUserWritesItsKeys ==
    [][/\ cache_user(userCache, None, now) = userCache
       /\ \A t \in Tasks :
             CachesCreated(t) =>
                 \E e \in userCache' :
                     /\ e.timestamp = now /\ e.data # None
                     /\ task[t].entry = "cached" => e.data = task'[t].result
                     /\ e.keys =
                           {<<"user_id", e.data.id>>}
                             \cup (IF e.data.email # ""
                                   THEN {<<"email", Lower(e.data.email)>>} ELSE {})
                             \cup (IF e.data.entra_oid # ""
                                   THEN {<<"entra_oid", e.data.entra_oid>>} ELSE {})
                     /\ userCache' \ {e} = UcWithout(userCache, e.keys) \ {e}]_vars

\* a resolution has created a record and cached it under its three keys
CachedUnderItsKeys ==
    \E t \in Tasks, e \in userCache :
        /\ Resolved(t) /\ task[t].entry = "cached" /\ task[t].inserted = 1
        /\ e.data = task[t].result
        /\ e.keys = {CacheKey("user_id", e.data.id), CacheKey("email", "ann@x.org"),
                     CacheKey("entra_oid", "o1")}

\* C23: after cache_user has put a record under its keys, invalidating one
\* of the keys leaves no other key of the record serving the entry.
InvalidateDropsEveryKey ==
    [][\A t \in Tasks :
          LET ep == task'[t].endpoint
              k == CacheKey(ep.lookup_type, ep.identifier)
          IN  /\ ep.op = "user_cache_invalidate"
              /\ task'[t].served = 200 /\ (task[t].served = 0 \/ Starts(t))
              /\ UcHas(userCache, k)
              => \A k2 \in UcEntry(userCache, k).keys : ~UcHas(userCache', k2)]_vars

\* the identity the resolver gave the endpoint of task t has the admin role
CallerIsAdmin(t) ==
    /\ task[t].result # None
    /\ \E i \in 1..Len(task[t].result.roles) : task[t].result.roles[i] = "admin"

\* C28: a cache-management endpoint answers 403 to a caller whose roles do
\* not include admin and is permitted (200) for one whose roles do.
AdminOnlyCacheManagement ==
    \A t \in Tasks :
        task[t].served # 0 =>
            task[t].served = (IF CallerIsAdmin(t) THEN 200 ELSE 403)

\* C24: once a resolution has persisted last_login and invalidated the cache
\* keys of the identity, a lookup of the identity that the cache answers
\* returns the updated record, never the value from before the update,
\* whatever miss-fills ran at the same time.
FreshAfterInvalidate ==
    [][\A t, b \in Tasks :
          /\ Starts(t) /\ task'[t].read # None /\ task'[t].ops = 0
          /\ b # t /\ Resolved(b) /\ task[b].entry = "entra"
          /\ task[b].via = "oid" /\ ~task[b].outage
          => task'[t].read.last_login >= task[b].result.last_login]_vars

\* C25: the user cache is size-bounded: it holds at most max_cache_size
\* lookup keys.
CacheSizeBounded == Cardinality(UcKeys(userCache)) <= MaxCacheSize

\* C26: a cache entry is read-valid iff now - timestamp < TTL.  The
\* AuthenticationCache answers a request iff the entry of its token is
\* read-valid, with the entry's value, and an entry at or past the TTL is
\* deleted by the read.  A user-cache lookup returns the cached record iff the
\* entry is read-valid; otherwise it queries the store and, when the query
\* has answered, the key holds an entry with the time of that lookup.
ReadValidIffYoungerThanTtl ==
    [][\A t \in Tasks :
          LET h == generate_token_hash(task'[t].tok)
              k == CacheKey("entra_oid", task'[t].tok.claims.oid)
          IN  /\ Starts(t) /\ task'[t].entry = "any" =>
                    /\ task'[t].hit <=>
                          /\ authCache[h] # NoEntry
                          /\ now - authCache[h].timestamp < AuthCacheTtl
                    /\ task'[t].hit => task'[t].result = authCache[h].user_data
                    /\ authCache[h] # NoEntry /\ ~task'[t].hit =>
                          authCache'[h] = NoEntry
              /\ Starts(t) /\ task'[t].entry = "cached" /\ UcHas(userCache, k)
                    /\ UcEntry(userCache, k).data # None =>
                    IF now - UcEntry(userCache, k).timestamp < UserCacheTtl
                    THEN /\ task'[t].ops = 0
                         /\ task'[t].read = UcEntry(userCache, k).data
                    ELSE /\ task'[t].ops = 1 /\ task'[t].pc = "cached_oid"
                         /\ userCache' = userCache
              /\ task[t].pc = "cached_oid" /\ task'[t] # task[t] /\ task[t].ret.ok =>
                    /\ UcHas(userCache', k)
                    /\ UcEntry(userCache', k).timestamp = task[t].t0]_vars

\* a lookup has found an entry whose age equals the TTL and is waiting for
\* the store
ExpiredEntryRefetched ==
    \E t \in Tasks :
        LET k == CacheKey("entra_oid", "o1")
        IN  /\ task[t].pc = "cached_oid" /\ task[t].t0 = now
            /\ UcHas(userCache, k)
            /\ now - UcEntry(userCache, k).timestamp = UserCacheTtl

\* C27: when the resolution of a remote user token creates a record, the
\* record has an id no stored record has, the token's e-mail lower-cased and
\* trimmed, the token's subject, and the token's roles claim if it is
\* non-empty and ["standard"] otherwise; the request ends with 200 and the
\* identity returned equals the created record.
CreatedRecordFromToken ==
    [][\A t \in Tasks :
          task'[t].inserted = task[t].inserted + 1 =>
              LET c == task[t].tok.claims
                  made == CHOOSE u \in store' \ store : TRUE
              IN  /\ store' \ store = {made}
                  /\ \A x \in store : x.id # made.id
                  /\ made.email = LowerStrip(EmailClaim(c))
                  /\ made.entra_oid = c.oid
                  /\ made.roles = IF Len(c.roles) > 0 THEN c.roles
                                  ELSE <<"standard">>
                  /\ task'[t].pc = "done" /\ task'[t].status = 200
                  /\ task'[t].result = made]_vars

\* a request whose token has a roles claim has created the only record of the
\* store and returned it
CreatedWithTokenRoles ==
    \E t \in Tasks :
        /\ Resolved(t) /\ task[t].inserted = 1 /\ task[t].tok = TAdmin
        /\ task[t].result.roles = <<"admin">>
        /\ task[t].result.email = "ann@x.org"
        /\ store = {task[t].result}

\* task t is between the acquisition and the release of the lock it got from
\* the registry (auth.py lines 106-170)
InCriticalSection(t) ==
    /\ task[t].entry # "register"
    /\ task[t].pc \in {"goc_email", "goc_oid", "cu_email", "cu_oid", "goc_retry"}

\* C29: for every identifier at most one task at a time is inside the
\* lock-protected section of get_or_create_entra_user: two tasks inside it
\* have different identifiers, so the registry never hands two mutexes of one
\* identifier to tasks whose critical sections overlap.
OneTaskPerIdentifier ==
    \A t1, t2 \in Tasks :
        t1 # t2 /\ InCriticalSection(t1) /\ InCriticalSection(t2) =>
            task[t1].ident # task[t2].ident

RecordsOfIdentity(d, t) ==
    {u \in d : u.entra_oid = task[t].oid \/ u.email = LowerStrip(task[t].email)}

\* C31: when create_user raises inside the lock, existence is re-checked
\* once: if at that moment the store holds a record of the identity, by
\* subject or by e-mail, and the re-check answers, the request ends with 200
\* and that record; the request fails only when no such record exists.
RecheckReturnsExisting ==
    [][\A t \in Tasks :
          /\ task[t].pc # "goc_retry" /\ task'[t].pc = "goc_retry"
                /\ task'[t].ret.ok /\ RecordsOfIdentity(store', t) # {} =>
                task'[t].ret.val \in RecordsOfIdentity(store', t)
          /\ task[t].pc = "goc_retry" /\ task'[t] # task[t] =>
                /\ task'[t].pc = "done"
                /\ IF task[t].ret.ok /\ task[t].ret.val # None
                   THEN /\ task'[t].status = 200
                        /\ task'[t].result.id = task[t].ret.val.id
                   ELSE task'[t].status # 200]_vars

\* a call of get_or_create_entra_user for identifier id is in progress
InFlight(id) == \E t \in Tasks : InLock(t) /\ task[t].ident = id

\* C32: every call of get_or_create_entra_user that ends, by return or by
\* exception, schedules the deletion of its identifier's registry entry
\* LockCleanupDelay later; and a registry entry whose identifier has no call
\* in progress is eventually removed, unless a new call arrives first.
RegistryEntryRemoved ==
    /\ [][\A t \in Tasks :
              InLock(t) /\ task[t].pc # "goc_wait" /\ ~InLock(t)' =>
                  \E c \in cleanups' \ cleanups :
                      c.ident = task[t].ident /\ c.due = now + LockCleanupDelay]_vars
    /\ \A id \in LockIdents :
           (registry[id] # 0 /\ ~InFlight(id)) ~> (registry[id] = 0 \/ InFlight(id))

\* a request has created the record inside the lock, and the registry entry
\* of its identifier has been deleted by the cleanup it scheduled
EntryDeletedAfterCall ==
    /\ \E t \in Tasks : Resolved(t) /\ task[t].inserted = 1
    /\ registry["o1"] = 0 /\ cleanups = {} /\ ~InFlight("o1")

\* the position of a request in its resolver: every step of a task moves it
\* to a later one
Rank(pc) ==
    CASE pc \in {"any_oid", "cached_oid"} -> 1
      [] pc \in {"any_email", "cached_email"} -> 2
      [] pc \in {"any_upd", "goc_wait"} -> 3
      [] pc = "goc_email" -> 4
      [] pc = "goc_oid" -> 5
      [] pc = "cu_email" -> 6
      [] pc = "cu_oid" -> 7
      [] pc = "goc_retry" -> 8
      [] pc \in {"any_legacy", "cached_legacy"} -> 9
      [] pc = "done" -> 10
      [] OTHER -> 0

\* task t is inside the async-with block of the lock it got from the registry
HoldsLock(t) == InLock(t) /\ task[t].pc # "goc_wait"

DistinctIdsBothSucceed ==
    /\ \A u, v \in store : u # v => u.id # v.id
    /\ \A t \in Tasks :
           task[t].pc = "done" /\ ~task[t].outage => task[t].status = 200

\* C35: the record a cache holds is a copy of its own: when
\* get_current_user_cached is served a record from the user cache and sets
\* auth_type, entra_oid or roles on the Identity it returns, the record the
\* cache holds under the key stays what it was.
CacheHoldsOwnCopy ==
    [][\A t \in Tasks :
          LET k == CacheKey("entra_oid", task'[t].tok.claims.oid)
          IN  Starts(t) /\ task'[t].entry = "cached" /\ UcHit(userCache, k, now)
                  /\ UcEntry(userCache, k).data # None =>
                  /\ UcHas(userCache', k)
                  /\ UcEntry(userCache', k).data = UcEntry(userCache, k).data]_vars

\* the entry of the user cache under key k, None when there is none
UcEntryOrNone(uc, k) == IF UcHas(uc, k) THEN UcEntry(uc, k) ELSE None

\* C36: when the store query of a user-cache miss raises, the lookup returns
\* None without raising: the entry under the key stays as it was (absent, or
\* the expired one), the errors counter goes up by one, and the caller goes
\* on as for a record that does not exist: with the lookup by e-mail after
\* the one by subject (awaited, or answered by the cache with a record or
\* with none), with get_or_create_entra_user after the one by e-mail.
MissErrorIsNone ==
    [][\A t \in Tasks :
          LET me == task[t]
              k == IF me.pc = "cached_oid" THEN CacheKey("entra_oid", me.oid)
                   ELSE CacheKey("email", Lower(me.email))
          IN  me.pc \in {"cached_oid", "cached_email"} /\ task'[t] # me
                  /\ ~me.ret.ok =>
                  /\ UcEntryOrNone(userCache', k) = UcEntryOrNone(userCache, k)
                  /\ task'[t].errors = me.errors + 1
                  /\ task'[t].via # "oid"
                  /\ me.pc = "cached_oid" =>
                        \/ task'[t].pc = "cached_email"
                        \/ task'[t].via = "email"
                        \/ InLock(t)'
                  /\ me.pc = "cached_email" => InLock(t)']_vars

\* the lookup by subject was answered with no record and cached, the one by
\* e-mail met a store error and left no entry, and the caller has gone on to
\* get_or_create_entra_user
CreatingAfterMissError ==
    \E t \in Tasks :
        /\ task[t].entry = "cached" /\ task[t].errors = 1 /\ task[t].pc = "goc_email"
        /\ UcHas(userCache, CacheKey("entra_oid", "o1"))
        /\ UcEntry(userCache, CacheKey("entra_oid", "o1")).data = None
        /\ ~UcHas(userCache, CacheKey("email", "ann@x.org"))

\* a lookup of the subject's key that finds a valid entry holding no record
\* is answered from it: the store is not queried for the key, whatever the
\* store holds by now
NegativeHitServed ==
    \A t \in Tasks :
        LET k == CacheKey("entra_oid", task'[t].tok.claims.oid)
        IN  Starts(t) /\ task'[t].entry = "cached" /\ UcHas(userCache, k)
                /\ now - UcEntry(userCache, k).timestamp < UserCacheTtl
                /\ UcEntry(userCache, k).data = None =>
                /\ task'[t].pc # "cached_oid" /\ task'[t].via # "oid"
                /\ UcEntryOrNone(userCache', k) = UcEntry(userCache, k)

\* a step of cache_user: create_user has returned to a caller that caches
CacheUserStep ==
    \E t \in Tasks :
        /\ task[t].pc \in {"cu_email", "cu_oid"} /\ task'[t] # task[t]
        /\ task[t].entry \in {"cached", "register"}

\* a step in which the store query of another lookup's miss has answered
MissFillStep ==
    \E t \in Tasks :
        /\ task[t].pc \in {"cached_oid", "cached_email"} /\ task'[t] # task[t]
        /\ task[t].ret.ok

\* C37 as stated: once a miss has cached "no record" under k, every lookup
\* of k within the TTL is a hit that returns None without a store query,
\* whatever was written to the store since, and k keeps an entry without a
\* record until cache_user, invalidate_user_cache, clear_all_cache or a
\* background refresh touches k (of these the scenario has cache_user).
NegativeEntryStays ==
    [][/\ NegativeHitServed
       /\ \A k \in UcKeys(userCache) :
              UcEntry(userCache, k).data = None
                  /\ ~(UcHas(userCache', k) /\ UcEntry(userCache', k).data = None) =>
                  CacheUserStep]_vars

\* C37 amended: as stated, with one more way for the entry to go: the store
\* query of another lookup of k, which missed before the entry was written,
\* answers and replaces it.
NegativeEntryStaysUntilFilled ==
    [][/\ NegativeHitServed
       /\ \A k \in UcKeys(userCache) :
              UcEntry(userCache, k).data = None
                  /\ ~(UcHas(userCache', k) /\ UcEntry(userCache', k).data = None) =>
                  CacheUserStep \/ MissFillStep]_vars

\* the store has a record of the subject, the cache still says there is none,
\* and a request served by that entry has gone on to get_or_create_entra_user
ServedNoneWhileStored ==
    \E t \in Tasks :
        /\ task[t].entry = "cached" /\ task[t].pc = "goc_email" /\ task[t].ops = 1
        /\ UcHas(userCache, CacheKey("entra_oid", "o1"))
        /\ UcEntry(userCache, CacheKey("entra_oid", "o1")).data = None
        /\ \E u \in store : u.entra_oid = "o1"

\* C38: invalidate_user_cache(e, "email") removes the entry that
\* get_user_by_email(e) reads and cache_user writes for a record with e-mail
\* e, and no other, whatever the letter case of e.
InvalidateRemovesLookupKey ==
    [][\A t \in Tasks :
          LET ep == task'[t].endpoint
              k == GetUserByEmailKey(ep.identifier)
          IN  /\ ep.op = "user_cache_invalidate" /\ ep.lookup_type = "email"
              /\ task'[t].served = 200 /\ (task[t].served = 0 \/ Starts(t))
              => /\ ~UcHas(userCache', k)
                 /\ \A k2 \in UcKeys(userCache) \ {k} :
                        /\ UcHas(userCache', k2)
                        /\ UcEntry(userCache', k2).data = UcEntry(userCache, k2).data]_vars

\* C39: a hit of the AuthenticationCache is returned without verifying the
\* token and without a store round trip: while the entry of the token is
\* younger than 300 s the request is answered with the cached identity,
\* even when the token has expired since or the stored record has other
\* roles or is gone; an entry leaves the cache only when a read finds it at
\* or past the TTL or the cache is cleared.
HitServedUnverified ==
    [][/\ \A t \in Tasks :
             LET h == generate_token_hash(task'[t].tok)
             IN  Starts(t) /\ task'[t].entry = "any" /\ FreshEntry(h) =>
                    /\ Ends(t) /\ task'[t].status = 200
                    /\ task'[t].result = authCache[h].user_data
                    /\ task'[t].verifies = 0 /\ task'[t].ops = 0
                    /\ store' = store /\ authCache' = authCache
       /\ \A h \in DOMAIN authCache :
             authCache[h] # NoEntry /\ authCache'[h] = NoEntry =>
                \/ AuthCacheClear
                \/ /\ now - authCache[h].timestamp >= AuthCacheTtl
                   /\ \E t \in Tasks :
                         Starts(t) /\ generate_token_hash(task'[t].tok) = h]_vars

\* a request with the expired token was answered from the cache when the
\* store held no record of the identity any more
ExpiredTokenServedDeletedUser ==
    \E t \in Tasks :
        /\ Resolved(t) /\ task[t].hit /\ task[t].tok.fail = "ExpiredSignatureError"
        /\ task[t].stored = {}

\* a request was answered from the cache with roles the stored record no
\* longer carries
HitWithChangedRoles ==
    \E t \in Tasks :
        /\ Resolved(t) /\ task[t].hit
        /\ \E u \in task[t].stored : u.roles # task[t].result.roles

\* C40: in get_me, for every verified remote user token that resolves to a
\* user, the roles of the returned profile equal the roles claim of the
\* token (the empty list when the claim is empty or absent), whatever roles
\* the stored record carries.
MeRolesAreTokenRoles ==
    \A t \in Tasks :
        /\ Resolved(t) /\ task[t].entry = "me"
        /\ task[t].vstatus = 200 /\ task[t].tok.claims.oid # ""
        => task[t].result.roles = task[t].tok.claims.roles

\* a token without roles claim got a profile with no roles for a record
\* that carries some
MeDroppedStoredRoles ==
    \E t \in Tasks :
        /\ Resolved(t) /\ task[t].entry = "me" /\ task[t].via = "oid"
        /\ ~task[t].tok.claims.has_roles
        /\ Len(task[t].read.roles) > 0 /\ task[t].result.roles = <<>>

====
